---- MODULE Spec2Model ----
(***************************************************************************)
(* Construction-Architect-Agent: the agent registry (adk_core/__init__.py), *)
(* the Generation Client (services/gemini_service.py) and the              *)
(* process_request method of the agents under adk_core/agents.             *)
(*                                                                         *)
(* Python values are records [kind, s, n, l, m]: kind names the Python     *)
(* type, s a string, n a number, l the items of a list and m the entries   *)
(* of a dict (a function from its keys).                                   *)
(***************************************************************************)
EXTENDS Integers, Sequences, FiniteSets, TLC

\* ------------------------------------------------------------------ bounds
\* number of threads that call into the registry
NumThreads == 2

\* ------------------------------------------------------------ Python values
PyNone == [kind |-> "none", s |-> "", n |-> 0, l |-> <<>>, m |-> <<>>]
Str(x) == [kind |-> "str", s |-> x, n |-> 0, l |-> <<>>, m |-> <<>>]
Num(x) == [kind |-> "num", s |-> "", n |-> x, l |-> <<>>, m |-> <<>>]
Bool(b) == [kind |-> "bool", s |-> "", n |-> IF b THEN 1 ELSE 0, l |-> <<>>, m |-> <<>>]
List(x) == [kind |-> "list", s |-> "", n |-> 0, l |-> x, m |-> <<>>]
Dict(f) == [kind |-> "dict", s |-> "", n |-> 0, l |-> <<>>, m |-> f]
\* an f-string: the literal text t with the interpolated values args
FStr(t, args) == [kind |-> "str", s |-> t, n |-> 0, l |-> args, m |-> <<>>]
EmptyDict == Dict(<<>>)
EmptyList == List(<<>>)

\* a raised exception of the named class
Raise(cls) == [kind |-> "exception", s |-> cls, n |-> 0, l |-> <<>>, m |-> <<>>]
IsExc(v) == v.kind = "exception"

\* x.get(k, d): AttributeError unless x is a dict
PyGet(x, k, d) ==
    IF x.kind # "dict" THEN Raise("AttributeError")
    ELSE IF k \in DOMAIN x.m THEN x.m[k] ELSE d

\* x.keys(): AttributeError unless x is a dict
PyKeys(x) == IF x.kind # "dict" THEN Raise("AttributeError") ELSE PyNone

\* ', '.join(x): a str, a dict (its str keys) or a list of str
PyJoin(x) ==
    IF \/ x.kind \in {"str", "dict"}
       \/ x.kind = "list" /\ \A i \in DOMAIN x.l : x.l[i].kind = "str"
    THEN Str("joined") ELSE Raise("TypeError")

\* hashable(x): lists and dicts are unhashable
Hashable(x) == x.kind \notin {"list", "dict"}

\* d[k] = v on a dict value
PySet(d, k, v) == Dict([j \in DOMAIN d.m \cup {k} |-> IF j = k THEN v ELSE d.m[j]])

\* truth value of x as in `x if x else y`
Truthy(x) ==
    CASE x.kind = "none" -> FALSE
      [] x.kind = "str" -> x.s # "" \/ x.l # <<>>
      [] x.kind \in {"num", "bool"} -> x.n # 0
      [] x.kind = "list" -> x.l # <<>>
      [] x.kind = "dict" -> DOMAIN x.m # {}
      [] OTHER -> TRUE

\* ------------------------------------------------------------- json module
\* the text json.dumps gives for the value v
JsonText(v) == FStr("json", <<v>>)

\* json.loads(text): the value the text encodes, JSONDecodeError otherwise
json_loads(text) ==
    IF text.kind = "str" /\ text.s = "json" /\ Len(text.l) = 1
    THEN text.l[1] ELSE Raise("JSONDecodeError")

\* --------------------------------------------------------- agent descriptors
\* One record per agent class under adk_core/agents:
\*   name        self.name set by __init__
\*   outKey      the key of the payload in a success output ("" when flat)
\*   task        the message returned when generate_text gives None
\*   failMsg     the message of the outer `except Exception`
\*   preKeys     input keys on whose value .keys() is called before the try
\*   dictVars    input keys on whose value .get is called to build the prompt
\*   joins       <<input key, nested key>> whose value ', '.join is applied to
\*   dumpsKeys   the prompt json.dumps a dict of dict_keys objects
\*   importsJson the module imports json
\*   usesText    process_request calls generate_text
\*   images      number of generate_image calls
\*   validates   the parsed value is checked against `required`
\*   required    the keys the validation step checks
\*   fallback    the dict substituted on json.JSONDecodeError
\*   style       how the payload is built from the parsed dict
\*   fields      payload key |-> [src, def]: parsed.get(src, def)
\*   consts      payload entries with a constant value
F(src) == [src |-> src, def |-> PyNone]
FD(src, def) == [src |-> src, def |-> def]
NoFields == [k \in {} |-> F("")]
NoEntries == [k \in {} |-> PyNone]

StrategicClientEngagementAgent ==
    [ name |-> "Strategic Client Engagement Agent", outKey |-> "",
      task |-> "LLM did not generate a valid response for requirement parsing.",
      failMsg |-> "Failed to process client inquiry: {str(e)}",
      preKeys |-> {}, dictVars |-> {}, joins |-> {}, dumpsKeys |-> FALSE,
      importsJson |-> TRUE, usesText |-> TRUE, images |-> 0,
      validates |-> FALSE, required |-> {},
      fallback |-> ("clarification_needed" :> Str("Gemini could not parse inquiry, manual review needed."))
                @@ ("suggested_next_steps" :> Str("Manual review of client inquiry.")),
      style |-> "flat",
      fields |-> ("clarifications" :> FD("clarification_needed", Str("None")))
              @@ ("workflow_suggested" :> FD("suggested_next_steps", Str("Proceed to site analysis."))),
      consts |-> ("details" :> Str("Client inquiry processed. Initial data extracted. Workflow initiated.")) ]

SiteIntelligenceRegulatoryComplianceAgent ==
    [ name |-> "Site Intelligence & Regulatory Compliance Agent",
      outKey |-> "site_feasibility_report",
      task |-> "LLM did not generate a valid response for regulatory interpretation.",
      failMsg |-> "Failed site analysis for {project_id}: {str(e)}",
      preKeys |-> {}, dictVars |-> {}, joins |-> {}, dumpsKeys |-> FALSE,
      importsJson |-> TRUE, usesText |-> TRUE, images |-> 0,
      validates |-> FALSE, required |-> {},
      fallback |-> ("summary" :> Str("Could not parse regulatory summary from AI. Manual review required."))
                @@ ("compliance_challenges" :> List(<<Str("AI parsing failed or response malformed.")>>))
                @@ ("recommendations" :> List(<<Str("Consult local regulations directly for detailed compliance.")>>)),
      style |-> "site",
      fields |-> ("regulatory_summary_ai" :> FD("summary", Str("N/A")))
              @@ ("compliance_challenges_ai" :> FD("compliance_challenges", EmptyList))
              @@ ("site_recommendations_ai" :> FD("recommendations", EmptyList)),
      consts |-> ("status" :> Str("initial_analysis_complete")) ]

GenerativeArchitecturalDesignAgent ==
    [ name |-> "Generative Architectural Design Agent",
      outKey |-> "architectural_concept",
      task |-> "LLM did not generate a valid response for design concept.",
      failMsg |-> "Failed architectural design for {project_id}: {str(e)}",
      preKeys |-> {}, dictVars |-> {"site_feasibility_report"}, joins |-> {},
      dumpsKeys |-> FALSE,
      importsJson |-> TRUE, usesText |-> TRUE, images |-> 1,
      validates |-> FALSE, required |-> {},
      fallback |-> ("design_summary" :> Str("Could not parse design summary from AI. Manual design review needed."))
                @@ ("key_elements" :> List(<<Str("Unspecified")>>))
                @@ ("considerations" :> List(<<Str("Manual design. AI parsing failed or response malformed.")>>)),
      style |-> "arch",
      fields |-> ("design_style_summary" :> F("design_summary"))
              @@ ("key_design_elements" :> FD("key_elements", EmptyList))
              @@ ("site_considerations_addressed" :> FD("considerations", EmptyList)),
      consts |-> ("floor_plan_url_placeholder" :> Str("https://placehold.co/600x400/FF0000/FFFFFF?text=Conceptual_Floor_Plan")) ]

IntegratedSystemsEngineeringAgent ==
    [ name |-> "Integrated Systems Engineering Agent", outKey |-> "system_design",
      task |-> "LLM did not generate a valid response for systems engineering.",
      failMsg |-> "Failed systems engineering for {project_id}: {str(e)}",
      preKeys |-> {}, dictVars |-> {"architectural_concept", "site_feasibility_report"},
      joins |-> {}, dumpsKeys |-> FALSE,
      importsJson |-> FALSE, usesText |-> TRUE, images |-> 0,
      validates |-> FALSE, required |-> {},
      fallback |-> ("structural_notes" :> Str("Generic structural design considerations."))
                @@ ("mep_notes" :> Str("Standard MEP system recommendations."))
                @@ ("integration_challenges" :> List(<<Str("LLM response parsing failed.")>>)),
      style |-> "systems",
      fields |-> ("structural_notes" :> F("structural_notes"))
              @@ ("mep_notes" :> F("mep_notes"))
              @@ ("integration_challenges" :> FD("integration_challenges", EmptyList)),
      consts |-> ("structural_design_status" :> Str("preliminary_complete"))
              @@ ("mep_design_status" :> Str("preliminary_complete")) ]

InteriorExperientialDesignAgent ==
    [ name |-> "Interior Experiential Design Agent", outKey |-> "experiential_design",
      task |-> "LLM did not generate a valid response for experiential design.",
      failMsg |-> "Failed experiential design for {project_id}: {str(e)}",
      preKeys |-> {}, dictVars |-> {"architectural_concept"},
      joins |-> {<<"desired_features", "">>}, dumpsKeys |-> FALSE,
      importsJson |-> TRUE, usesText |-> TRUE, images |-> 0,
      validates |-> FALSE, required |-> {},
      fallback |-> ("interior_style" :> Str("Modern generic"))
                @@ ("landscape_features" :> Str("Basic garden layout"))
                @@ ("material_palette_notes" :> Str("Standard materials")),
      style |-> "project",
      fields |-> ("interior_style" :> F("interior_style"))
              @@ ("landscape_features" :> F("landscape_features"))
              @@ ("material_palette_notes" :> F("material_palette_notes")),
      consts |-> ("mood_board_url_placeholder" :> Str("https://placehold.co/600x400/996633/FFFFFF?text=Interior_Mood_Board")) ]

HyperRealistic3DDigitalTwinAgent ==
    [ name |-> "Hyper-Realistic 3D Digital Twin Agent", outKey |-> "digital_twin_output",
      task |-> "",
      failMsg |-> "Failed digital twin creation for {project_id}: {str(e)}",
      preKeys |-> {},
      dictVars |-> {"architectural_concept", "site_feasibility_report", "experiential_design"},
      joins |-> {<<"architectural_concept", "key_design_elements">>}, dumpsKeys |-> FALSE,
      importsJson |-> FALSE, usesText |-> FALSE, images |-> 2,
      validates |-> FALSE, required |-> {},
      fallback |-> NoEntries,
      style |-> "twin",
      fields |-> NoFields,
      consts |-> ("digital_twin_url_placeholder" :> Str("[https://example.com/digital_twin_model.gltf](https://example.com/digital_twin_model.gltf)"))
              @@ ("status" :> Str("initial_twin_created"))
              @@ ("details" :> Str("High-fidelity digital twin model and initial renders generated.")) ]

PredictiveCostSupplyChainAgent ==
    [ name |-> "Predictive Cost & Supply Chain Agent", outKey |-> "cost_supply_chain_analysis",
      task |-> "LLM did not generate a valid response for cost/supply chain.",
      failMsg |-> "Failed cost and supply chain analysis for {project_id}: {str(e)}",
      preKeys |-> {},
      dictVars |-> {"architectural_concept", "system_design", "experiential_design"},
      joins |-> {}, dumpsKeys |-> FALSE,
      importsJson |-> TRUE, usesText |-> TRUE, images |-> 0,
      validates |-> TRUE,
      required |-> {"total_estimated_cost_usd", "cost_breakdown", "procurement_strategy"},
      fallback |-> ("cost_breakdown" :> Dict(("materials" :> Str("N/A")) @@ ("labor" :> Str("N/A"))
                        @@ ("equipment" :> Str("N/A")) @@ ("permits_fees" :> Str("N/A"))
                        @@ ("contingency" :> Str("N/A"))))
                @@ ("procurement_strategy" :> Str("Generic procurement strategy due to parsing error.")),
      style |-> "merge",
      fields |-> NoFields,
      consts |-> ("status" :> Str("cost_estimation_complete")) ]

AdaptiveProjectManagementRoboticsOrchestrationAgent ==
    [ name |-> "Adaptive Project Management & Robotics Orchestration Agent",
      outKey |-> "master_project_plan",
      task |-> "LLM did not generate a valid response for project plan.",
      failMsg |-> "Failed project planning for {project_id}: {str(e)}",
      preKeys |-> {},
      dictVars |-> {"cost_supply_chain_analysis", "estimated_schedule",
                    "site_feasibility_report", "architectural_concept"},
      joins |-> {}, dumpsKeys |-> FALSE,
      importsJson |-> TRUE, usesText |-> TRUE, images |-> 0,
      validates |-> TRUE,
      required |-> {"status", "budget_summary", "timeline_summary", "key_milestones_overview"},
      fallback |-> ("status" :> Str("master_plan_drafted_with_errors"))
                @@ ("key_milestones_overview" :> Str("Milestones parsing failed."))
                @@ ("risks_identified" :> List(<<Str("LLM response parsing failed, manual risk review needed.")>>))
                @@ ("next_steps" :> List(<<Str("Review generated output manually.")>>)),
      style |-> "merge",
      fields |-> NoFields,
      consts |-> NoEntries ]

ProactiveRiskSafetyManagementAgent ==
    [ name |-> "Proactive Risk & Safety Management Agent",
      outKey |-> "risk_safety_assessment",
      task |-> "LLM did not generate a valid response for risk/safety.",
      failMsg |-> "Failed risk/safety assessment for {project_id}: {str(e)}",
      preKeys |-> {},
      dictVars |-> {"master_project_plan", "site_feasibility_report"},
      joins |-> {<<"site_feasibility_report", "compliance_challenges_ai">>}, dumpsKeys |-> FALSE,
      importsJson |-> TRUE, usesText |-> TRUE, images |-> 0,
      validates |-> TRUE,
      required |-> {"identified_risks", "mitigation_strategies", "safety_highlights"},
      fallback |-> ("identified_risks" :> List(<<Str("Generic risk identified due to parsing error.")>>))
                @@ ("mitigation_strategies" :> List(<<Str("Generic mitigation strategy.")>>))
                @@ ("safety_highlights" :> List(<<Str("General safety practices applicable.")>>)),
      style |-> "project",
      fields |-> ("risks" :> F("identified_risks"))
              @@ ("mitigation_strategies" :> F("mitigation_strategies"))
              @@ ("safety_highlights" :> F("safety_highlights")),
      consts |-> ("status" :> Str("risk_safety_assessment_complete")) ]

SemanticDataIntegrationOntologyAgent ==
    [ name |-> "Semantic Data Integration & Ontology Agent",
      outKey |-> "data_integration_analysis",
      task |-> "LLM did not generate a valid response for data integration.",
      failMsg |-> "Failed data integration analysis for {project_id}: {str(e)}",
      preKeys |-> {"parsed_data", "site_feasibility_report", "architectural_concept", "system_design", "experiential_design", "cost_supply_chain_analysis", "estimated_schedule"},
      dictVars |-> {},
      joins |-> {}, dumpsKeys |-> TRUE,
      importsJson |-> TRUE, usesText |-> TRUE, images |-> 0,
      validates |-> TRUE,
      required |-> {"data_domains", "integration_challenges", "suggested_ontologies"},
      fallback |-> ("data_domains" :> List(<<Str("Design"), Str("Cost"), Str("Schedule")>>))
                @@ ("integration_challenges" :> List(<<Str("Data silos"), Str("Format incompatibility")>>))
                @@ ("suggested_ontologies" :> List(<<Str("IFC (Industry Foundation Classes)")>>)),
      style |-> "project",
      fields |-> ("data_domains_identified" :> F("data_domains"))
              @@ ("potential_integration_challenges" :> F("integration_challenges"))
              @@ ("recommended_ontologies" :> F("suggested_ontologies")),
      consts |-> ("status" :> Str("data_integration_analysis_complete")) ]

LearningAdaptationAgent ==
    [ name |-> "Learning & Adaptation Agent",
      outKey |-> "learning_adaptation_insights",
      task |-> "LLM did not generate a valid response for learning/adaptation.",
      failMsg |-> "Failed simulated learning for {project_id}: {str(e)}",
      preKeys |-> {},
      dictVars |-> {},
      joins |-> {}, dumpsKeys |-> FALSE,
      importsJson |-> TRUE, usesText |-> TRUE, images |-> 0,
      validates |-> TRUE,
      required |-> {"lessons_learned", "adaptation_suggestions"},
      fallback |-> ("lessons_learned" :> List(<<Str("Generic lesson: communication is key.")>>))
                @@ ("adaptation_suggestions" :> List(<<Str("Improve initial planning accuracy.")>>)),
      style |-> "project",
      fields |-> ("lessons_learned" :> F("lessons_learned"))
              @@ ("adaptation_suggestions" :> F("adaptation_suggestions")),
      consts |-> ("status" :> Str("simulated_learning_complete")) ]

HumanAICollaborationExplainabilityAgent ==
    [ name |-> "Human-AI Collaboration & Explainability Agent",
      outKey |-> "human_collaboration_summary",
      task |-> "LLM did not generate a valid response for human collaboration summary.",
      failMsg |-> "Failed to prepare human collaboration summary for {project_id}: {str(e)}",
      preKeys |-> {},
      dictVars |-> {},
      joins |-> {}, dumpsKeys |-> FALSE,
      importsJson |-> TRUE, usesText |-> TRUE, images |-> 0,
      validates |-> TRUE,
      required |-> {"summary_for_human", "key_findings", "recommended_human_actions"},
      fallback |-> ("summary_for_human" :> Str("Summary generation failed due to parsing error. Please review raw agent outputs."))
                @@ ("key_findings" :> List(<<Str("Core data available in raw outputs.")>>))
                @@ ("recommended_human_actions" :> List(<<Str("Manually review all agent outputs.")>>)),
      style |-> "project",
      fields |-> ("summary_text" :> F("summary_for_human"))
              @@ ("key_findings" :> F("key_findings"))
              @@ ("recommended_actions" :> F("recommended_human_actions")),
      consts |-> ("status" :> Str("summary_for_human_review_prepared")) ]

SustainabilityGreenBuildingAgent ==
    [ name |-> "Sustainability & Green Building Agent",
      outKey |-> "sustainability_analysis",
      task |-> "LLM did not generate a valid response for sustainability.",
      failMsg |-> "Failed sustainability assessment for {project_id}: {str(e)}",
      preKeys |-> {},
      dictVars |-> {"architectural_concept", "system_design", "experiential_design"},
      joins |-> {}, dumpsKeys |-> FALSE,
      importsJson |-> TRUE, usesText |-> TRUE, images |-> 0,
      validates |-> TRUE,
      required |-> {"sustainability_potential", "green_strategies", "potential_certifications"},
      fallback |-> ("sustainability_potential" :> Str("Assessment failed due to parsing error."))
                @@ ("green_strategies" :> List(<<Str("Use energy-efficient lighting"), Str("Recycle construction waste")>>))
                @@ ("potential_certifications" :> List(<<Str("Green Star")>>)),
      style |-> "project",
      fields |-> ("sustainability_potential" :> F("sustainability_potential"))
              @@ ("green_strategies" :> F("green_strategies"))
              @@ ("potential_certifications" :> F("potential_certifications")),
      consts |-> ("status" :> Str("sustainability_assessment_complete")) ]

LegalContractManagementAgent ==
    [ name |-> "Legal & Contract Management Agent",
      outKey |-> "legal_contract_analysis",
      task |-> "LLM did not generate a valid response for legal/contract management.",
      failMsg |-> "Failed legal/contract assessment for {project_id}: {str(e)}",
      preKeys |-> {},
      dictVars |-> {"site_feasibility_report"},
      joins |-> {<<"site_feasibility_report", "compliance_challenges_ai">>}, dumpsKeys |-> FALSE,
      importsJson |-> TRUE, usesText |-> TRUE, images |-> 0,
      validates |-> TRUE,
      required |-> {"legal_overview", "common_contract_types", "key_contract_clauses", "required_permits_licenses"},
      fallback |-> ("legal_overview" :> Str("Legal assessment failed due to parsing error."))
                @@ ("common_contract_types" :> List(<<Str("Fixed Price"), Str("Cost-Plus")>>))
                @@ ("key_contract_clauses" :> List(<<Str("Scope of Work"), Str("Payment Terms")>>))
                @@ ("required_permits_licenses" :> List(<<Str("Building Permit"), Str("Zoning Approval")>>)),
      style |-> "project",
      fields |-> ("legal_overview" :> F("legal_overview"))
              @@ ("common_contract_types" :> F("common_contract_types"))
              @@ ("key_contract_clauses" :> F("key_contract_clauses"))
              @@ ("required_permits_licenses" :> F("required_permits_licenses")),
      consts |-> ("status" :> Str("legal_assessment_complete")) ]

WorkforceManagementHRAgent ==
    [ name |-> "Workforce Management & HR Agent",
      outKey |-> "workforce_hr_analysis",
      task |-> "LLM did not generate a valid response for workforce/HR.",
      failMsg |-> "Failed workforce/HR assessment for {project_id}: {str(e)}",
      preKeys |-> {},
      dictVars |-> {"estimated_schedule"},
      joins |-> {}, dumpsKeys |-> FALSE,
      importsJson |-> TRUE, usesText |-> TRUE, images |-> 0,
      validates |-> TRUE,
      required |-> {"workforce_needs", "hr_considerations", "labor_compliance_highlights"},
      fallback |-> ("workforce_needs" :> List(<<Str("Skilled laborers"), Str("Project manager")>>))
                @@ ("hr_considerations" :> List(<<Str("Competitive salaries"), Str("Safety training")>>))
                @@ ("labor_compliance_highlights" :> List(<<Str("Local labor laws adherence")>>)),
      style |-> "project",
      fields |-> ("workforce_needs" :> F("workforce_needs"))
              @@ ("hr_considerations" :> F("hr_considerations"))
              @@ ("labor_compliance_highlights" :> F("labor_compliance_highlights")),
      consts |-> ("status" :> Str("workforce_hr_assessment_complete")) ]

PostConstructionFacilityManagementAgent ==
    [ name |-> "Post-Construction & Facility Management Agent",
      outKey |-> "post_construction_fm_analysis",
      task |-> "LLM did not generate a valid response for post-construction/FM.",
      failMsg |-> "Failed FM assessment for {project_id}: {str(e)}",
      preKeys |-> {},
      dictVars |-> {"architectural_concept", "system_design"},
      joins |-> {}, dumpsKeys |-> FALSE,
      importsJson |-> TRUE, usesText |-> TRUE, images |-> 0,
      validates |-> TRUE,
      required |-> {"fm_overview", "maintenance_requirements", "operational_challenges", "smart_building_tech_suggestions"},
      fallback |-> ("fm_overview" :> Str("FM assessment failed due to parsing error."))
                @@ ("maintenance_requirements" :> List(<<Str("HVAC checks"), Str("Roof inspections")>>))
                @@ ("operational_challenges" :> List(<<Str("Energy consumption management")>>))
                @@ ("smart_building_tech_suggestions" :> List(<<Str("Automated lighting"), Str("Predictive HVAC")>>)),
      style |-> "project",
      fields |-> ("fm_overview" :> F("fm_overview"))
              @@ ("maintenance_requirements" :> F("maintenance_requirements"))
              @@ ("operational_challenges" :> F("operational_challenges"))
              @@ ("smart_building_tech_suggestions" :> F("smart_building_tech_suggestions")),
      consts |-> ("status" :> Str("fm_assessment_complete")) ]

PublicRelationsStakeholderCommunicationAgent ==
    [ name |-> "Public Relations & Stakeholder Communication Agent",
      outKey |-> "public_relations_strategy",
      task |-> "LLM did not generate a valid response for public relations.",
      failMsg |-> "Failed PR strategy generation for {project_id}: {str(e)}",
      preKeys |-> {},
      dictVars |-> {},
      joins |-> {}, dumpsKeys |-> FALSE,
      importsJson |-> TRUE, usesText |-> TRUE, images |-> 0,
      validates |-> TRUE,
      required |-> {"communication_overview", "key_stakeholders", "communication_channels", "key_messages"},
      fallback |-> ("communication_overview" :> Str("PR strategy generation failed due to parsing error."))
                @@ ("key_stakeholders" :> List(<<Str("Local residents"), Str("Media")>>))
                @@ ("communication_channels" :> List(<<Str("Project website"), Str("Local newspaper")>>))
                @@ ("key_messages" :> List(<<Str("Building for the future"), Str("Minimizing disruption")>>)),
      style |-> "project",
      fields |-> ("communication_overview" :> F("communication_overview"))
              @@ ("key_stakeholders" :> F("key_stakeholders"))
              @@ ("communication_channels" :> F("communication_channels"))
              @@ ("key_messages" :> F("key_messages")),
      consts |-> ("status" :> Str("pr_strategy_drafted")) ]

\* ------------------------------------------------------------------ registry
\* the keys of the _adk_agents dict literal, each with the class it constructs
AgentClassOf ==
    ("strategic_client_engagement_agent" :> "StrategicClientEngagementAgent")
 @@ ("site_intelligence_regulatory_compliance_agent" :> "SiteIntelligenceRegulatoryComplianceAgent")
 @@ ("generative_architectural_design_agent" :> "GenerativeArchitecturalDesignAgent")
 @@ ("integrated_systems_engineering_agent" :> "IntegratedSystemsEngineeringAgent")
 @@ ("interior_experiential_design_agent" :> "InteriorExperientialDesignAgent")
 @@ ("hyper_realistic_3d_digital_twin_agent" :> "HyperRealistic3DDigitalTwinAgent")
 @@ ("predictive_cost_supply_chain_agent" :> "PredictiveCostSupplyChainAgent")
 @@ ("adaptive_project_management_robotics_orchestration_agent" :> "AdaptiveProjectManagementRoboticsOrchestrationAgent")
 @@ ("proactive_risk_safety_management_agent" :> "ProactiveRiskSafetyManagementAgent")
 @@ ("ai_driven_quality_assurance_control_agent" :> "AIDrivenQualityAssuranceControlAgent")
 @@ ("semantic_data_integration_ontology_agent" :> "SemanticDataIntegrationOntologyAgent")
 @@ ("learning_adaptation_agent" :> "LearningAdaptationAgent")
 @@ ("human_ai_collaboration_explainability_agent" :> "HumanAICollaborationExplainabilityAgent")
 @@ ("sustainability_green_building_agent" :> "SustainabilityGreenBuildingAgent")
 @@ ("financial_investment_analysis_agent" :> "FinancialInvestmentAnalysisAgent")
 @@ ("legal_contract_management_agent" :> "LegalContractManagementAgent")
 @@ ("workforce_management_hr_agent" :> "WorkforceManagementHRAgent")
 @@ ("post_construction_facility_management_agent" :> "PostConstructionFacilityManagementAgent")
 @@ ("public_relations_stakeholder_communication_agent" :> "PublicRelationsStakeholderCommunicationAgent")

\* the order in which the dict literal constructs the agents
AgentOrder ==
    << "strategic_client_engagement_agent",
       "site_intelligence_regulatory_compliance_agent",
       "generative_architectural_design_agent",
       "integrated_systems_engineering_agent",
       "interior_experiential_design_agent",
       "hyper_realistic_3d_digital_twin_agent",
       "predictive_cost_supply_chain_agent",
       "adaptive_project_management_robotics_orchestration_agent",
       "proactive_risk_safety_management_agent",
       "ai_driven_quality_assurance_control_agent",
       "semantic_data_integration_ontology_agent",
       "learning_adaptation_agent",
       "human_ai_collaboration_explainability_agent",
       "sustainability_green_building_agent",
       "financial_investment_analysis_agent",
       "legal_contract_management_agent",
       "workforce_management_hr_agent",
       "post_construction_facility_management_agent",
       "public_relations_stakeholder_communication_agent" >>

\* the classes whose module is part of the sources, with their descriptor
AgentDef ==
    ("strategic_client_engagement_agent" :> StrategicClientEngagementAgent)
 @@ ("site_intelligence_regulatory_compliance_agent" :> SiteIntelligenceRegulatoryComplianceAgent)
 @@ ("generative_architectural_design_agent" :> GenerativeArchitecturalDesignAgent)
 @@ ("integrated_systems_engineering_agent" :> IntegratedSystemsEngineeringAgent)
 @@ ("interior_experiential_design_agent" :> InteriorExperientialDesignAgent)
 @@ ("hyper_realistic_3d_digital_twin_agent" :> HyperRealistic3DDigitalTwinAgent)
 @@ ("predictive_cost_supply_chain_agent" :> PredictiveCostSupplyChainAgent)
 @@ ("adaptive_project_management_robotics_orchestration_agent" :> AdaptiveProjectManagementRoboticsOrchestrationAgent)
 @@ ("proactive_risk_safety_management_agent" :> ProactiveRiskSafetyManagementAgent)
 @@ ("semantic_data_integration_ontology_agent" :> SemanticDataIntegrationOntologyAgent)
 @@ ("learning_adaptation_agent" :> LearningAdaptationAgent)
 @@ ("human_ai_collaboration_explainability_agent" :> HumanAICollaborationExplainabilityAgent)
 @@ ("sustainability_green_building_agent" :> SustainabilityGreenBuildingAgent)
 @@ ("legal_contract_management_agent" :> LegalContractManagementAgent)
 @@ ("workforce_management_hr_agent" :> WorkforceManagementHRAgent)
 @@ ("post_construction_facility_management_agent" :> PostConstructionFacilityManagementAgent)
 @@ ("public_relations_stakeholder_communication_agent" :> PublicRelationsStakeholderCommunicationAgent)

Agents == DOMAIN AgentDef
Threads == 1 .. NumThreads

VARIABLES
    _resolver,      \* module global: 0 for None, else the id of a Resolver
    _adk_agents,    \* module global: [none, d], d the dict name |-> instance
    resolverCtor,   \* number of Resolver objects constructed
    agentCtor,      \* number of agent objects constructed
    services,       \* the GeminiService objects constructed, in order
    vertexOk,       \* environment: aiplatform.init and the model lookups succeed
    rpc,            \* per thread: position in get_adk_system / initialize
    api,            \* per thread: the function the thread called
    ret,            \* per thread: what the call it is returning from returns
    firstRet,       \* history: what the first call that returned a value returned,
                    \* and the constructor counts at that moment
    config,         \* environment: GOOGLE_APPLICATION_CREDENTIALS and PROJECT_ID are set
    imported        \* config.settings: "no", "ok", or the exception its import raised

regVars == <<_resolver, _adk_agents, resolverCtor, agentCtor, services, vertexOk,
             rpc, api, ret, firstRet, config, imported>>

NoneAgents == [none |-> TRUE, d |-> <<>>]
NoReturn == [kind |-> "none", agents |-> NoneAgents, resolver |-> 0]
Raised(cls) == [kind |-> cls, agents |-> NoneAgents, resolver |-> 0]
Returned(a, r) == [kind |-> "value", agents |-> a, resolver |-> r]

\* GeminiService.__init__: both models, or both None when the try block raises
GeminiService(ok) == [gemini_model |-> ok, imagen_model |-> ok]

\* NewAgent whose __init__ does not store the resolver
NewAgent_NoResolver(cls, r, sid) == [cls |-> cls, resolver |-> 0, gemini_service |-> sid]

\* <Class>(resolver=r): BaseConstructionAgent.__init__ stores the resolver and the
\* subclass constructs its own GeminiService; sid is the id of that service
NewAgent(cls, r, sid) == [cls |-> cls, resolver |-> r, gemini_service |-> sid]

RegInit ==
    /\ _resolver = 0
    /\ _adk_agents = NoneAgents
    /\ resolverCtor = 0
    /\ agentCtor = 0
    /\ services = <<>>
    /\ vertexOk \in BOOLEAN
    /\ rpc = [t \in Threads |-> "idle"]
    /\ api = [t \in Threads |-> "none"]
    /\ ret = [t \in Threads |-> NoReturn]
    /\ firstRet = [set |-> FALSE, val |-> NoReturn, api |-> "none", ctors |-> <<0, 0, 0>>]
    /\ config \in BOOLEAN
    /\ imported = "no"

\* Settings(): the two fields without a default must come from the environment
\* or the .env file, else pydantic raises ValidationError
Settings(present) == IF present THEN "ok" ELSE "ValidationError"

\* `settings = Settings()` runs when config.settings is first imported, which
\* the import of adk_core and of gemini_service does; an exception there
\* leaves the package unimported
ImportSettings ==
    /\ imported = "no"
    /\ imported' = Settings(config)
    /\ UNCHANGED <<_resolver, _adk_agents, resolverCtor, agentCtor, services, vertexOk,
                   rpc, api, ret, firstRet, config>>

\* a thread enters get_adk_system(); sequential when no other call is running
CallGet(t) ==
    /\ imported = "ok"
    /\ rpc[t] = "idle"
    /\ \A u \in Threads : rpc[u] = "idle"
    /\ rpc' = [rpc EXCEPT ![t] = "get_check"]
    /\ api' = [api EXCEPT ![t] = "get"]
    /\ UNCHANGED <<_resolver, _adk_agents, resolverCtor, agentCtor, services, vertexOk, ret, firstRet>>

\* a thread enters initialize_adk_system_with_agents()
CallInit(t) ==
    /\ imported = "ok"
    /\ rpc[t] = "idle"
    /\ \A u \in Threads : rpc[u] = "idle"
    /\ rpc' = [rpc EXCEPT ![t] = "init_check"]
    /\ api' = [api EXCEPT ![t] = "init"]
    /\ UNCHANGED <<_resolver, _adk_agents, resolverCtor, agentCtor, services, vertexOk, ret, firstRet>>

\* get_adk_system: if _adk_agents is None or _resolver is None
NeedsInit == _adk_agents.none \/ _resolver = 0

GetCheck(t) ==
    /\ rpc[t] = "get_check"
    /\ rpc' = [rpc EXCEPT ![t] = IF NeedsInit THEN "init_check" ELSE "get_return"]
    /\ UNCHANGED <<_resolver, _adk_agents, resolverCtor, agentCtor, services, vertexOk, api, ret, firstRet>>

\* initialize without its guard: it initialises on every call
ResolverIsNone_Always == TRUE

\* initialize: if _resolver is None
ResolverIsNone == _resolver = 0

InitCheck(t) ==
    /\ rpc[t] = "init_check"
    /\ rpc' = [rpc EXCEPT ![t] = IF ResolverIsNone THEN "init_client" ELSE "init_return"]
    /\ UNCHANGED <<_resolver, _adk_agents, resolverCtor, agentCtor, services, vertexOk, api, ret, firstRet>>

\* PredictionServiceClient(client_options=...): the external constructor either
\* gives a client or raises, and then the call ends with nothing assigned
InitClient(t) ==
    /\ rpc[t] = "init_client"
    /\ \E ok \in BOOLEAN :
         IF ok
         THEN /\ rpc' = [rpc EXCEPT ![t] = "init_resolver"]
              /\ ret' = ret
         ELSE /\ rpc' = [rpc EXCEPT ![t] = "returned"]
              /\ ret' = [ret EXCEPT ![t] = Raised("Exception")]
    /\ UNCHANGED <<_resolver, _adk_agents, resolverCtor, agentCtor, services, vertexOk, api, firstRet>>

\* _resolver = Resolver(...): the external constructor either gives a resolver,
\* which is assigned, or raises, and then the call ends with nothing assigned
InitResolver(t) ==
    /\ rpc[t] = "init_resolver"
    /\ \E ok \in BOOLEAN :
         IF ok
         THEN /\ resolverCtor' = resolverCtor + 1
              /\ _resolver' = resolverCtor + 1
              /\ rpc' = [rpc EXCEPT ![t] = "init_agents"]
              /\ ret' = ret
         ELSE /\ rpc' = [rpc EXCEPT ![t] = "returned"]
              /\ ret' = [ret EXCEPT ![t] = Raised("Exception")]
              /\ UNCHANGED <<_resolver, resolverCtor>>
    /\ UNCHANGED <<_adk_agents, agentCtor, services, vertexOk, api, firstRet>>

\* The constructor of the two agent classes whose modules are not in the
\* tree (quality assurance, financial analysis): taken to have the shape the
\* seventeen others share
UnseenAgentInit(cls, r, sid) == [cls |-> cls, resolver |-> r, gemini_service |-> sid]

\* the dict the literal builds: the i-th agent gets the resolver r and the
\* GeminiService with id base + i
BuildAgents(r, base) ==
    [name \in DOMAIN AgentClassOf |->
        LET i == CHOOSE j \in DOMAIN AgentOrder : AgentOrder[j] = name
        IN IF name \in DOMAIN AgentDef
           THEN NewAgent(AgentClassOf[name], r, base + i)
           ELSE UnseenAgentInit(AgentClassOf[name], r, base + i)]

\* InitAgents with an agent constructor that may raise: the dict literal is
\* abandoned, _adk_agents keeps its value and _resolver stays assigned
InitAgents_CtorRaises(t) ==
    /\ rpc[t] = "init_agents"
    /\ \E ok \in BOOLEAN :
         IF ok
         THEN /\ _adk_agents' = [none |-> FALSE, d |-> BuildAgents(_resolver, Len(services))]
              /\ services' = services \o [i \in 1 .. Len(AgentOrder) |-> GeminiService(vertexOk)]
              /\ agentCtor' = agentCtor + Len(AgentOrder)
              /\ rpc' = [rpc EXCEPT ![t] = "init_return"]
              /\ ret' = ret
         ELSE /\ rpc' = [rpc EXCEPT ![t] = "returned"]
              /\ ret' = [ret EXCEPT ![t] = Raised("Exception")]
              /\ UNCHANGED <<_adk_agents, services, agentCtor>>
    /\ UNCHANGED <<_resolver, resolverCtor, vertexOk, api, firstRet>>

\* _adk_agents = { name: Class(resolver=_resolver), ... }
InitAgents(t) ==
    /\ rpc[t] = "init_agents"
    /\ _adk_agents' = [none |-> FALSE, d |-> BuildAgents(_resolver, Len(services))]
    /\ services' = services \o [i \in 1 .. Len(AgentOrder) |-> GeminiService(vertexOk)]
    /\ agentCtor' = agentCtor + Len(AgentOrder)
    /\ rpc' = [rpc EXCEPT ![t] = "init_return"]
    /\ UNCHANGED <<_resolver, resolverCtor, vertexOk, api, ret, firstRet>>

\* history: the first returned value, with the constructor counts then
NoteFirst(v, f) ==
    IF firstRet.set THEN firstRet
    ELSE [set |-> TRUE, val |-> v, api |-> f,
          ctors |-> <<resolverCtor, agentCtor, Len(services)>>]

\* initialize: return _adk_agents, _resolver
InitReturn(t) ==
    /\ rpc[t] = "init_return"
    /\ IF api[t] = "get"
       THEN /\ rpc' = [rpc EXCEPT ![t] = "get_return"]
            /\ UNCHANGED <<ret, firstRet>>
       ELSE /\ rpc' = [rpc EXCEPT ![t] = "returned"]
            /\ ret' = [ret EXCEPT ![t] = Returned(_adk_agents, _resolver)]
            /\ firstRet' = NoteFirst(Returned(_adk_agents, _resolver), api[t])
    /\ UNCHANGED <<_resolver, _adk_agents, resolverCtor, agentCtor, services, vertexOk, api>>

\* get_adk_system: return _adk_agents, _resolver
GetReturn(t) ==
    /\ rpc[t] = "get_return"
    /\ rpc' = [rpc EXCEPT ![t] = "returned"]
    /\ ret' = [ret EXCEPT ![t] = Returned(_adk_agents, _resolver)]
    /\ firstRet' = NoteFirst(Returned(_adk_agents, _resolver), api[t])
    /\ UNCHANGED <<_resolver, _adk_agents, resolverCtor, agentCtor, services, vertexOk, api>>

\* the caller takes the return value (or the exception) and goes on
Resume(t) ==
    /\ rpc[t] = "returned"
    /\ rpc' = [rpc EXCEPT ![t] = "idle"]
    /\ api' = [api EXCEPT ![t] = "none"]
    /\ ret' = [ret EXCEPT ![t] = NoReturn]
    /\ UNCHANGED <<_resolver, _adk_agents, resolverCtor, agentCtor, services, vertexOk, firstRet>>

\* --------------------------------------------------------- Generation Client
\* what the SDK call does: raise, or give a response with so many candidates,
\* the first candidate with so many parts, the first part with this text
SdkRaises == [exc |-> TRUE, candidates |-> 0, parts |-> 0, text |-> PyNone]
SdkResponse(c, p, t) == [exc |-> FALSE, candidates |-> c, parts |-> p, text |-> t]

\* generate_text giving "" instead of None for a response without content
generate_text_EmptyString(service, sdk) ==
    IF ~service.gemini_model THEN PyNone
    ELSE IF sdk.exc THEN PyNone
    ELSE IF sdk.candidates > 0 /\ sdk.parts > 0 THEN sdk.text
    ELSE Str("")

\* GeminiService.generate_text
generate_text(service, sdk) ==
    IF ~service.gemini_model THEN PyNone
    ELSE IF sdk.exc THEN PyNone
    ELSE IF sdk.candidates > 0 /\ sdk.parts > 0 THEN sdk.text
    ELSE PyNone

\* what generate_images does: raise, or give so many images
ImagenRaises == [exc |-> TRUE, images |-> 0]
ImagenResponse(k) == [exc |-> FALSE, images |-> k]

\* the base64 text of the PNG of a generated image
ImageB64 == Str("base64-png")

\* generate_image without its try/except: the SDK's exception reaches the caller
generate_image_NoExcept(service, sdk) ==
    IF ~service.imagen_model THEN PyNone
    ELSE IF sdk.exc THEN Raise("Exception")
    ELSE IF sdk.images > 0 THEN ImageB64
    ELSE PyNone

\* GeminiService.generate_image
generate_image(service, sdk) ==
    IF ~service.imagen_model THEN PyNone
    ELSE IF sdk.exc THEN PyNone
    ELSE IF sdk.images > 0 THEN ImageB64
    ELSE PyNone

\* a GeminiService call as the caller sees it: the method, whether its model
\* was initialised, what the SDK did (when it was called), and the return value
NoCall ==
    [fn |-> "none", ready |-> FALSE, exc |-> FALSE, candidates |-> 0, parts |-> 0,
     images |-> 0, text |-> PyNone, ret |-> PyNone]
TextCall(service, sdk) ==
    IF ~service.gemini_model
    THEN [NoCall EXCEPT !.fn = "generate_text", !.ret = generate_text(service, sdk)]
    ELSE [fn |-> "generate_text", ready |-> TRUE, exc |-> sdk.exc,
          candidates |-> sdk.candidates, parts |-> sdk.parts, images |-> 0,
          text |-> sdk.text, ret |-> generate_text(service, sdk)]
ImageCall(service, sdk) ==
    IF ~service.imagen_model
    THEN [NoCall EXCEPT !.fn = "generate_image", !.ret = generate_image(service, sdk)]
    ELSE [fn |-> "generate_image", ready |-> TRUE, exc |-> sdk.exc,
          candidates |-> 0, parts |-> 0, images |-> sdk.images,
          text |-> PyNone, ret |-> generate_image(service, sdk)]

\* ------------------------------------------------------------------- hashing
\* hash(x): TypeError for a list or dict; the hash of a str varies with the
\* hash seed of the process, that of a number is the number
PyHash(x, seed) ==
    CASE ~Hashable(x) -> Raise("TypeError")
      [] x.kind \in {"num", "bool"} -> Num(x.n)
      [] x.kind = "str" -> Num(seed * 31 + Len(x.s))
      [] OTHER -> Num(seed)

\* d.get(key, default) with a key that is any value
PyLookup(d, key, default) ==
    IF ~Hashable(key) THEN Raise("TypeError")
    ELSE IF key.kind = "str" /\ key.l = <<>> /\ key.s \in DOMAIN d.m THEN d.m[key.s]
    ELSE default

\* ------------------------------------------------------------ agent outputs
\* ErrorOut without the agent_name entry
ErrorOut_NoAgentName(name, msg) ==
    Dict(("status" :> Str("error")) @@ ("message" :> msg))

ErrorOut(name, msg) ==
    Dict(("agent_name" :> Str(name)) @@ ("status" :> Str("error")) @@ ("message" :> msg))

\* SuccessOut that also carries a message entry
SuccessOut_WithMessage(name, outKey, payload) ==
    Dict(("agent_name" :> Str(name)) @@ ("status" :> Str("success"))
         @@ ("message" :> Str("ok")) @@ (outKey :> payload))

SuccessOut(name, outKey, payload) ==
    Dict(("agent_name" :> Str(name)) @@ ("status" :> Str("success")) @@ (outKey :> payload))

\* self.mock_zoning_data of the site agent
mock_zoning_data ==
    Dict(
      ("London, UK" :> Dict(
          ("residential" :> Dict(("allowed_height_m" :> Num(12))
              @@ ("setbacks_m" :> Dict(("front" :> Num(5)) @@ ("sides" :> Num(3)) @@ ("rear" :> Num(7))))))
       @@ ("commercial" :> Dict(("allowed_height_m" :> Num(20))
              @@ ("setbacks_m" :> Dict(("front" :> Num(3)) @@ ("sides" :> Num(1)) @@ ("rear" :> Num(5))))))
       @@ ("max_coverage_percent" :> Num(40))
       @@ ("environmental_risk" :> Str("Low (potential for minor soil contamination near old industrial sites)"))
       @@ ("common_building_codes" :> Str("UK Building Regulations Part B (Fire Safety), Part M (Access to and use of buildings), Part L (Conservation of fuel and power)."))))
   @@ ("New York, USA" :> Dict(
          ("residential" :> Dict(("allowed_height_m" :> Num(150))
              @@ ("setbacks_m" :> Dict(("front" :> Num(0)) @@ ("sides" :> Num(0)) @@ ("rear" :> Num(0))))))
       @@ ("commercial" :> Dict(("allowed_height_m" :> Num(300))
              @@ ("setbacks_m" :> Dict(("front" :> Num(0)) @@ ("sides" :> Num(0)) @@ ("rear" :> Num(0))))))
       @@ ("max_coverage_percent" :> Num(100))
       @@ ("environmental_risk" :> Str("Medium (urban heat island effect, historical underground infrastructure)"))
       @@ ("common_building_codes" :> Str("NYC Building Code, ADA Compliance."))))
   @@ ("Rural, California, USA" :> Dict(
          ("residential" :> Dict(("allowed_height_m" :> Num(10))
              @@ ("setbacks_m" :> Dict(("front" :> Num(10)) @@ ("sides" :> Num(5)) @@ ("rear" :> Num(10))))))
       @@ ("commercial" :> Dict(("allowed_height_m" :> Num(15))
              @@ ("setbacks_m" :> Dict(("front" :> Num(8)) @@ ("sides" :> Num(4)) @@ ("rear" :> Num(8))))))
       @@ ("max_coverage_percent" :> Num(25))
       @@ ("environmental_risk" :> Str("High (wildfire risk, seismic activity, water scarcity, protected species habitats)"))
       @@ ("common_building_codes" :> Str("California Building Standards Code (Title 24), Wildland-Urban Interface (WUI) codes.")))))

\* ------------------------------------------------- process_request, by parts
\* The statements before the try: every agent calls user_input.get, the
\* semantic agent also calls .keys() on seven entries. An exception here is
\* outside every handler.
PreTry(d, user_input) ==
    IF user_input.kind # "dict" THEN Raise("AttributeError")
    ELSE IF \E k \in d.preKeys : IsExc(PyKeys(PyGet(user_input, k, EmptyDict)))
         THEN Raise("AttributeError")
    ELSE PyNone

\* ProjectId with a default text in place of None
ProjectId_Default(user_input) == PyGet(user_input, "project_id", Str("unknown"))

\* project_id = user_input.get("project_id")
ProjectId(user_input) == PyGet(user_input, "project_id", PyNone)

\* ', '.join(...) of a top-level entry or of an entry of a nested dict
JoinOf(user_input, j) ==
    IF j[2] = "" THEN PyJoin(PyGet(user_input, j[1], EmptyList))
    ELSE PyJoin(PyGet(PyGet(user_input, j[1], EmptyDict), j[2], EmptyList))

\* SiteInfo with {} as the default in place of the London entry
SiteInfo_EmptyDefault(user_input) ==
    PyLookup(mock_zoning_data, PyGet(user_input, "location", PyNone), EmptyDict)

\* site agent: site_info = self.mock_zoning_data.get(location, London entry)
SiteInfo(user_input) ==
    PyLookup(mock_zoning_data, PyGet(user_input, "location", PyNone),
             mock_zoning_data.m["London, UK"])

\* site agent: zoning_rules = site_info.get(project_type, {})
ZoningRules(user_input) ==
    IF IsExc(SiteInfo(user_input)) THEN SiteInfo(user_input)
    ELSE PyLookup(SiteInfo(user_input), PyGet(user_input, "project_type", PyNone), EmptyDict)

\* initial_requirements = user_input.get("parsed_data", user_input)
InitialRequirements(user_input) == PyGet(user_input, "parsed_data", user_input)

\* The prompt built inside the try: the text, or the first exception raised
BuildPrompt(d, user_input) ==
    CASE d.style = "site" ->
            IF IsExc(ZoningRules(user_input)) THEN ZoningRules(user_input)
            ELSE Str("prompt")
      [] d.style = "arch" ->
            IF InitialRequirements(user_input).kind # "dict" THEN Raise("AttributeError")
            ELSE IF PyGet(user_input, "site_feasibility_report", EmptyDict).kind # "dict"
                 THEN Raise("AttributeError")
            ELSE IF PyGet(PyGet(user_input, "site_feasibility_report", EmptyDict),
                          "zoning_data", EmptyDict).kind # "dict"
                 THEN Raise("AttributeError")
            ELSE Str("prompt")
      [] OTHER ->
            IF \E v \in d.dictVars : PyGet(user_input, v, EmptyDict).kind # "dict"
            THEN Raise("AttributeError")
            ELSE IF \E j \in d.joins : IsExc(JoinOf(user_input, j)) THEN Raise("TypeError")
            ELSE IF d.dumpsKeys THEN Raise("TypeError")
            ELSE Str("prompt")

\* Fallback whose cost number is not reduced modulo 100000
Fallback_NoModulo(d, user_input, seed) ==
    IF d.outKey = "cost_supply_chain_analysis"
    THEN Dict(("total_estimated_cost_usd" :> Num(700000 + PyHash(ProjectId(user_input), seed).n))
              @@ d.fallback)
    ELSE Dict(d.fallback)

\* Fallback that binds an empty dict
Fallback_Empty(d, user_input, seed) == EmptyDict

\* Fallback that adds an entry recording the parse failure
Fallback_WithNote(d, user_input, seed) ==
    Dict(("parse_error" :> Bool(TRUE)) @@ d.fallback)

\* The dict the `except json.JSONDecodeError` branch assigns. Three agents
\* compute entries from the call: the cost agent hashes project_id, the plan
\* agent quotes two input entries, the client agent passes the input through.
Fallback(d, user_input, seed) ==
    CASE d.outKey = "cost_supply_chain_analysis" ->
            IF IsExc(PyHash(ProjectId(user_input), seed)) THEN PyHash(ProjectId(user_input), seed)
            ELSE Dict(("total_estimated_cost_usd" :>
                          Num(700000 + (PyHash(ProjectId(user_input), seed).n % 100000)))
                      @@ d.fallback)
      [] d.outKey = "master_project_plan" ->
            Dict(("budget_summary" :> FStr("Approx. ${total_estimated_cost_usd} (parsing error)",
                     <<PyGet(PyGet(user_input, "cost_supply_chain_analysis", EmptyDict),
                             "total_estimated_cost_usd", Str("N/A"))>>))
              @@ ("timeline_summary" :> FStr("{total_duration_weeks} weeks (parsing error)",
                     <<PyGet(PyGet(user_input, "estimated_schedule", EmptyDict),
                             "total_duration_weeks", Str("N/A"))>>))
              @@ d.fallback)
      [] d.style = "flat" ->
            Dict(("parsed_requirements" :> user_input) @@ d.fallback)
      [] OTHER -> Dict(d.fallback)

\* FailsValidation that only checks the type of the parsed value
FailsValidation_TypeOnly(d, x) == d.validates /\ x.kind # "dict"

\* `if not isinstance(x, dict) or 'k' not in x or ...` of the validating agents
FailsValidation(d, x) ==
    d.validates /\ (x.kind # "dict" \/ ~(d.required \subseteq DOMAIN x.m))

\* The inner try: json.loads, the validation, and the JSONDecodeError handler.
\* exc is the exception that leaves the inner try (PyNone when none does),
\* parsed the dict bound afterwards, loads the number of json.loads calls.
ParseStep(d, user_input, text, seed) ==
    IF ~d.importsJson
    THEN [exc |-> Raise("NameError"), parsed |-> PyNone, fellBack |-> FALSE, loads |-> 0]
    ELSE IF IsExc(json_loads(text))
    THEN IF IsExc(Fallback(d, user_input, seed))
         THEN [exc |-> Fallback(d, user_input, seed), parsed |-> PyNone,
               fellBack |-> TRUE, loads |-> 1]
         ELSE [exc |-> PyNone, parsed |-> Fallback(d, user_input, seed),
               fellBack |-> TRUE, loads |-> 1]
    ELSE IF FailsValidation(d, json_loads(text))
    THEN [exc |-> Raise("ValueError"), parsed |-> PyNone, fellBack |-> FALSE, loads |-> 1]
    ELSE [exc |-> PyNone, parsed |-> json_loads(text), fellBack |-> FALSE, loads |-> 1]

\* architectural agent: the image prompt built after parsing
ImagePrompt(d, user_input, parsed) ==
    IF IsExc(PyJoin(PyGet(InitialRequirements(user_input), "desired_features", EmptyList)))
    THEN Raise("TypeError")
    ELSE IF parsed.kind # "dict" THEN Raise("AttributeError")
    ELSE Str("image prompt")

\* len(x) > 0
PyNonEmpty(x) ==
    CASE x.kind = "list" -> Bool(x.l # <<>>)
      [] x.kind = "str" -> Bool(x.s # "" \/ x.l # <<>>)
      [] x.kind = "dict" -> Bool(DOMAIN x.m # {})
      [] OTHER -> Raise("TypeError")

\* ProjectFields reading each value under the payload key instead of the reply key
ProjectFields_WrongKey(d, parsed) ==
    [o \in DOMAIN d.fields |-> PyGet(parsed, o, d.fields[o].def)]

\* { out: parsed.get(src, def), ... }
ProjectFields(d, parsed) ==
    [o \in DOMAIN d.fields |-> PyGet(parsed, d.fields[o].src, d.fields[o].def)]

\* Truncated without the test for a missing image
Truncated_NoNoneCheck(image) == FStr("{image[:100]}...", <<image>>)

\* image_base64[:100] + "..." if image_base64 else "N/A"
Truncated(image) ==
    IF Truthy(image) THEN FStr("{image[:100]}...", <<image>>) ELSE Str("N/A")

\* self.mock_project_id = "proj_" + str(hash("initial_project_data"))[:8]
mock_project_id(seed) ==
    FStr("proj_{str(hash)[:8]}", <<PyHash(Str("initial_project_data"), seed)>>)

\* The statements from the payload dict to the return: the returned dict, or
\* the exception raised on the way
Compile(d, user_input, parsed, images, seed) ==
    LET pid == ProjectId(user_input) IN
    CASE d.style = "merge" ->
            SuccessOut(d.name, d.outKey, Dict(d.consts @@ ("project_id" :> pid) @@ parsed.m))
      [] d.style = "twin" ->
            SuccessOut(d.name, d.outKey,
                Dict(("project_id" :> pid) @@ d.consts
                  @@ ("exterior_render_base64" :> Truncated(images[1]))
                  @@ ("full_exterior_render_base64" :> images[1])
                  @@ ("interior_render_base64" :> Truncated(images[2]))
                  @@ ("full_interior_render_base64" :> images[2])
                  @@ ("generated_render_prompts" :>
                        Dict(("exterior" :> Str("prompt")) @@ ("interior" :> Str("prompt"))))))
      [] parsed.kind # "dict" -> Raise("AttributeError")
      [] d.style = "flat" ->
            Dict(("agent_name" :> Str(d.name)) @@ ("status" :> Str("success")) @@ d.consts
              @@ ("parsed_data" :> PyGet(parsed, "parsed_requirements", user_input))
              @@ ProjectFields(d, parsed)
              @@ ("project_id" :> mock_project_id(seed)))
      [] d.style = "site" ->
            IF ZoningRules(user_input).kind # "dict" THEN Raise("AttributeError")
            ELSE SuccessOut(d.name, d.outKey,
                Dict(("project_id" :> pid)
                  @@ ("location" :> PyGet(user_input, "location", PyNone))
                  @@ ("project_type" :> PyGet(user_input, "project_type", PyNone))
                  @@ d.consts
                  @@ ("zoning_data" :> Dict(
                        ("allowed_height_m" :> PyGet(ZoningRules(user_input), "allowed_height_m", Str("N/A")))
                     @@ ("setbacks_m" :> PyGet(ZoningRules(user_input), "setbacks_m", EmptyDict))
                     @@ ("max_coverage_percent" :> PyGet(SiteInfo(user_input), "max_coverage_percent", Str("N/A")))))
                  @@ ("environmental_risk" :> PyGet(SiteInfo(user_input), "environmental_risk", Str("Unknown")))
                  @@ ("common_building_codes" :> PyGet(SiteInfo(user_input), "common_building_codes", Str("Standard building codes apply.")))
                  @@ ProjectFields(d, parsed)))
      [] d.style = "arch" ->
            SuccessOut(d.name, d.outKey,
                Dict(("project_id" :> pid) @@ ProjectFields(d, parsed)
                  @@ ("conceptual_render_base64" :> Truncated(images[1]))
                  @@ ("full_conceptual_render_base64" :> images[1])
                  @@ d.consts))
      [] d.style = "systems" ->
            IF IsExc(PyNonEmpty(PyGet(parsed, "integration_challenges", EmptyList)))
            THEN Raise("TypeError")
            ELSE SuccessOut(d.name, d.outKey,
                Dict(("project_id" :> pid) @@ d.consts @@ ProjectFields(d, parsed)
                  @@ ("design_conflicts_detected" :>
                        PyNonEmpty(PyGet(parsed, "integration_challenges", EmptyList)))))
      [] OTHER ->
            SuccessOut(d.name, d.outKey,
                Dict(("project_id" :> pid) @@ d.consts @@ ProjectFields(d, parsed)))

\* the dict the outer `except Exception as e` returns
Failed(d, user_input, e) ==
    ErrorOut(d.name, FStr(d.failMsg,
        IF d.style = "flat" THEN <<Str(e.s)>> ELSE <<ProjectId(user_input), Str(e.s)>>))

\* the dict returned when generate_text gave None
Unavailable(d) == ErrorOut(d.name, Str(d.task))

\* -------------------------------------------------------------------- inputs
\* the user_input values a call is made with
InNone == PyNone
InList == List(<<Str("build a house")>>)
InEmpty == EmptyDict
InCost == Dict(("project_id" :> Str("p1")) @@ ("total_estimated_cost_usd" :> Num(100)))
\* entries of an unexpected shape: text where a dict is read
InBadShape ==
    Dict(("project_id" :> Str("p1"))
      @@ ("parsed_data" :> Str("house"))
      @@ ("site_feasibility_report" :> Str("ok"))
      @@ ("architectural_concept" :> Str("modern"))
      @@ ("system_design" :> Str("steel"))
      @@ ("experiential_design" :> Str("cosy"))
      @@ ("cost_supply_chain_analysis" :> Num(100))
      @@ ("estimated_schedule" :> Num(10))
      @@ ("master_project_plan" :> Str("plan")))
\* lists of numbers where lists of text are joined
InBadJoin ==
    Dict(("project_id" :> Num(7))
      @@ ("desired_features" :> List(<<Num(1)>>))
      @@ ("experiential_design" :> Dict("interior_style" :> Str("warm")))
      @@ ("site_feasibility_report" :> Dict("compliance_challenges_ai" :> List(<<Num(2)>>)))
      @@ ("architectural_concept" :> Dict("key_design_elements" :> List(<<Num(3)>>))))
\* an unhashable project_id and location, a project_type naming a scalar entry
InUnhashable ==
    Dict(("project_id" :> List(<<Str("p1")>>)) @@ ("location" :> List(<<Str("London, UK")>>)))
InScalarType ==
    Dict(("project_id" :> Str("p2")) @@ ("location" :> Str("New York, USA"))
      @@ ("project_type" :> Str("max_coverage_percent")))
\* the accumulated state of a pipeline run
InPipeline ==
    Dict(("project_id" :> Str("p1"))
      @@ ("client_name" :> Str("Ada"))
      @@ ("project_description" :> Str("a family house"))
      @@ ("project_type" :> Str("residential"))
      @@ ("project_size" :> Str("small"))
      @@ ("location" :> Str("Rural, California, USA"))
      @@ ("desired_features" :> List(<<Str("garden"), Str("garage")>>))
      @@ ("parsed_data" :> Dict(("project_type" :> Str("residential"))
            @@ ("desired_features" :> List(<<Str("garden")>>))))
      @@ ("site_feasibility_report" :> Dict(("location" :> Str("Rural, California, USA"))
            @@ ("zoning_data" :> Dict("allowed_height_m" :> Num(10)))
            @@ ("environmental_risk" :> Str("High"))
            @@ ("regulatory_summary_ai" :> Str("summary"))
            @@ ("compliance_challenges_ai" :> List(<<Str("setbacks")>>))))
      @@ ("architectural_concept" :> Dict(("design_style_summary" :> Str("modern"))
            @@ ("key_design_elements" :> List(<<Str("glass")>>))))
      @@ ("system_design" :> Dict(("structural_notes" :> Str("timber")) @@ ("mep_notes" :> Str("heat pump"))))
      @@ ("experiential_design" :> Dict(("interior_style" :> Str("warm"))
            @@ ("landscape_features" :> Str("orchard"))
            @@ ("material_palette_notes" :> Str("oak"))))
      @@ ("cost_supply_chain_analysis" :> Dict(("total_estimated_cost_usd" :> Num(100))
            @@ ("cost_breakdown" :> Dict("materials" :> Num(60)))
            @@ ("procurement_strategy" :> Str("local"))))
      @@ ("estimated_schedule" :> Dict(("total_duration_weeks" :> Num(40))
            @@ ("milestones" :> List(<<Str("roof")>>))))
      @@ ("master_project_plan" :> Dict(("budget_summary" :> Str("100"))
            @@ ("timeline_summary" :> Str("40 weeks"))
            @@ ("key_milestones_overview" :> Str("roof")))))

\* a location the zoning table does not know, and an unhashable project_type
InUnknownSite ==
    Dict(("project_id" :> Str("p3")) @@ ("location" :> Str("Paris, France"))
      @@ ("project_type" :> Str("commercial")))
InListType ==
    Dict(("project_id" :> Str("p4")) @@ ("location" :> Str("New York, USA"))
      @@ ("project_type" :> List(<<Str("residential")>>)))
Inputs == {InNone, InList, InEmpty, InCost, InBadShape, InBadJoin, InUnhashable,
           InScalarType, InPipeline, InUnknownSite, InListType}

\* ------------------------------------------------------------- model replies
\* the keys an agent reads from the parsed reply
ReplyKeys(d) ==
    IF d.validates THEN d.required
    ELSE {d.fields[o].src : o \in DOMAIN d.fields}
         \cup (IF d.style = "flat" THEN {"parsed_requirements"} ELSE {})

\* a JSON object with the given keys, each bound to a text naming the key
ObjectWith(keys) == Dict([k \in keys |-> Str(k)])

\* a reply with every key the agent reads, and three keys it did not ask for
FullObject(d) == ObjectWith(ReplyKeys(d) \cup {"project_id", "status", "extra_note"})

\* replies that lack one of the keys the agent reads
PartialObjects(d) == {ObjectWith(ReplyKeys(d) \ {k}) : k \in ReplyKeys(d)}

\* the texts the model replies with
Replies(d) ==
    { Str("not json"),
      JsonText(List(<<Num(1)>>)), JsonText(Str("text")), JsonText(PyNone),
      JsonText(EmptyDict), JsonText(ObjectWith(ReplyKeys(d))), JsonText(FullObject(d)) }
    \cup {JsonText(o) : o \in PartialObjects(d)}

\* what the text SDK call may do in a call of agent d
TextOutcomes(d) ==
    {SdkRaises, SdkResponse(0, 0, PyNone), SdkResponse(1, 0, PyNone)}
    \cup {SdkResponse(1, 1, t) : t \in Replies(d)}

\* what the image SDK call may do
ImageOutcomes == {ImagenRaises, ImagenResponse(0), ImagenResponse(1)}

\* hash seeds of the process (PYTHONHASHSEED)
HashSeeds == {-4000003, 0, 2300017}

\* ------------------------------------------------------- process_request call
VARIABLES
    hashSeed,      \* environment: the hash seed of the process
    pc,            \* position of the call in process_request
    agent,         \* registry name of the agent called ("" when idle)
    user_input,    \* the argument
    llm_response,  \* what generate_text returned
    parsed,        \* the dict bound by the inner try
    fellBack,      \* the JSONDecodeError handler ran
    images,        \* what the generate_image calls returned, in order
    result,        \* the returned dict, or the exception that left the call
    text_calls,    \* generate_text calls made by this call
    loads_calls,   \* json.loads calls made by this call
    image_calls,   \* generate_image calls made by this call
    lastCall       \* history: the last GeminiService call, what the SDK did in it
                   \* and what it returned

callVars == <<hashSeed, pc, agent, user_input, llm_response, parsed, fellBack, images,
              result, text_calls, loads_calls, image_calls, lastCall>>

\* Concurrent callers of one agent instance, each with a frame of its own
VARIABLES
    instance,      \* registry name of the agent instance the threads call
    frames         \* per thread: the locals of its process_request call, with
                   \* (history) what the SDK did in its generation calls

parVars == <<instance, frames>>
vars == <<regVars, callVars, parVars>>

\* the locals of a thread that is not in a call
IdleFrame ==
    [pc |-> "idle", user_input |-> PyNone, llm_response |-> PyNone, parsed |-> PyNone,
     fellBack |-> FALSE, images |-> <<>>, result |-> PyNone,
     tsdk |-> SdkResponse(0, 0, PyNone), isdks |-> <<>>]

CallInit0 ==
    /\ hashSeed \in HashSeeds
    /\ pc = "idle"
    /\ agent = ""
    /\ user_input = PyNone
    /\ llm_response = PyNone
    /\ parsed = PyNone
    /\ fellBack = FALSE
    /\ images = <<>>
    /\ result = PyNone
    /\ text_calls = 0
    /\ loads_calls = 0
    /\ image_calls = 0
    /\ lastCall = NoCall

Init ==
    /\ RegInit
    /\ CallInit0
    /\ instance = ""
    /\ frames = [t \in Threads |-> IdleFrame]

\* the descriptor and the GeminiService of the agent being called
Self == AgentDef[agent]
SelfService == services[_adk_agents.d[agent].gemini_service]

\* the call ends with the value or exception r
Finish(r, next) ==
    /\ result' = r
    /\ pc' = next

\* a caller takes an agent from the registry and calls process_request
ProcessRequest(a, inp) ==
    /\ pc = "idle"
    /\ ~_adk_agents.none
    /\ \A t \in Threads : rpc[t] = "idle"
    /\ agent' = a
    /\ user_input' = inp
    /\ pc' = "start"
    /\ UNCHANGED <<hashSeed, llm_response, parsed, fellBack, images, result,
                   text_calls, loads_calls, image_calls>>
    /\ UNCHANGED lastCall
    /\ UNCHANGED regVars

\* the statements before the try
Extract ==
    /\ pc = "start"
    /\ IF IsExc(PreTry(Self, user_input))
       THEN Finish(PreTry(Self, user_input), "raised")
       ELSE Finish(PyNone, "prompt")
    /\ UNCHANGED <<hashSeed, agent, user_input, llm_response, parsed, fellBack, images,
                   text_calls, loads_calls, image_calls>>
    /\ UNCHANGED lastCall
    /\ UNCHANGED regVars

\* the prompt is built; an exception goes to the outer handler
Prompt ==
    /\ pc = "prompt"
    /\ IF IsExc(BuildPrompt(Self, user_input))
       THEN Finish(Failed(Self, user_input, BuildPrompt(Self, user_input)), "done")
       ELSE Finish(PyNone, IF Self.usesText THEN "generating" ELSE "imaging")
    /\ UNCHANGED <<hashSeed, agent, user_input, llm_response, parsed, fellBack, images,
                   text_calls, loads_calls, image_calls>>
    /\ UNCHANGED lastCall
    /\ UNCHANGED regVars

\* Generate without the `if llm_response is None` return
Generate_NoNoneCheck(sdk) ==
    /\ pc = "generating"
    /\ text_calls' = text_calls + 1
    /\ llm_response' = generate_text(SelfService, sdk)
    /\ Finish(PyNone, "parsing")
    /\ UNCHANGED <<hashSeed, agent, user_input, parsed, fellBack, images,
                   loads_calls, image_calls>>
    /\ lastCall' = TextCall(SelfService, sdk)
    /\ UNCHANGED regVars

\* llm_response = self.gemini_service.generate_text(...), and the None check
Generate(sdk) ==
    /\ pc = "generating"
    /\ text_calls' = text_calls + 1
    /\ llm_response' = generate_text(SelfService, sdk)
    /\ IF generate_text(SelfService, sdk) = PyNone
       THEN Finish(Unavailable(Self), "done")
       ELSE Finish(PyNone, "parsing")
    /\ UNCHANGED <<hashSeed, agent, user_input, parsed, fellBack, images,
                   loads_calls, image_calls>>
    /\ lastCall' = TextCall(SelfService, sdk)
    /\ UNCHANGED regVars

\* the inner try; what it raises goes to the outer handler
Parse ==
    /\ pc = "parsing"
    /\ LET p == ParseStep(Self, user_input, llm_response, hashSeed) IN
         /\ loads_calls' = loads_calls + p.loads
         /\ fellBack' = p.fellBack
         /\ parsed' = p.parsed
         /\ IF IsExc(p.exc)
            THEN Finish(Failed(Self, user_input, p.exc), "done")
            ELSE Finish(PyNone, IF Self.images > 0 THEN "imaging" ELSE "compiling")
    /\ UNCHANGED <<hashSeed, agent, user_input, llm_response, images,
                   text_calls, image_calls>>
    /\ UNCHANGED lastCall
    /\ UNCHANGED regVars

\* Image that gives up when generate_image returned None, as Generate does
\* for a missing text
Image_StopsOnNone(sdk) ==
    /\ pc = "imaging"
    /\ IF Self.style = "arch" /\ IsExc(ImagePrompt(Self, user_input, parsed))
       THEN /\ Finish(Failed(Self, user_input, ImagePrompt(Self, user_input, parsed)), "done")
            /\ UNCHANGED <<images, image_calls, lastCall>>
       ELSE /\ images' = Append(images, generate_image(SelfService, sdk))
            /\ lastCall' = ImageCall(SelfService, sdk)
            /\ image_calls' = image_calls + 1
            /\ IF generate_image(SelfService, sdk) = PyNone
               THEN Finish(Unavailable(Self), "done")
               ELSE Finish(PyNone, IF Len(images) + 1 < Self.images THEN "imaging" ELSE "compiling")
    /\ UNCHANGED <<hashSeed, agent, user_input, llm_response, parsed, fellBack,
                   text_calls, loads_calls>>
    /\ UNCHANGED regVars

\* self.gemini_service.generate_image(...); the architectural agent first
\* builds the image prompt from the parsed reply
Image(sdk) ==
    /\ pc = "imaging"
    /\ IF Self.style = "arch" /\ IsExc(ImagePrompt(Self, user_input, parsed))
       THEN /\ Finish(Failed(Self, user_input, ImagePrompt(Self, user_input, parsed)), "done")
            /\ UNCHANGED <<images, image_calls, lastCall>>
       ELSE /\ images' = Append(images, generate_image(SelfService, sdk))
            /\ lastCall' = ImageCall(SelfService, sdk)
            /\ image_calls' = image_calls + 1
            /\ Finish(PyNone, IF Len(images) + 1 < Self.images THEN "imaging" ELSE "compiling")
    /\ UNCHANGED <<hashSeed, agent, user_input, llm_response, parsed, fellBack,
                   text_calls, loads_calls>>
    /\ UNCHANGED regVars

\* Return that also writes its status into the input mapping
Return_StoresOutput ==
    /\ pc = "compiling"
    /\ LET r == Compile(Self, user_input, parsed, images, hashSeed) IN
         /\ IF IsExc(r) THEN Finish(Failed(Self, user_input, r), "done")
            ELSE Finish(r, "done")
         /\ user_input' = PySet(user_input, "status", Str("processed"))
    /\ UNCHANGED <<hashSeed, agent, llm_response, parsed, fellBack, images,
                   text_calls, loads_calls, image_calls, lastCall>>
    /\ UNCHANGED regVars

\* the payload is built and returned; an exception goes to the outer handler
Return ==
    /\ pc = "compiling"
    /\ LET r == Compile(Self, user_input, parsed, images, hashSeed) IN
         IF IsExc(r) THEN Finish(Failed(Self, user_input, r), "done")
         ELSE Finish(r, "done")
    /\ UNCHANGED <<hashSeed, agent, user_input, llm_response, parsed, fellBack, images,
                   text_calls, loads_calls, image_calls>>
    /\ UNCHANGED lastCall
    /\ UNCHANGED regVars

\* the caller takes the result (or the exception) and the frame is gone
Leave ==
    /\ pc \in {"done", "raised"}
    /\ pc' = "idle"
    /\ agent' = ""
    /\ user_input' = PyNone
    /\ llm_response' = PyNone
    /\ parsed' = PyNone
    /\ fellBack' = FALSE
    /\ images' = <<>>
    /\ result' = PyNone
    /\ text_calls' = 0
    /\ loads_calls' = 0
    /\ image_calls' = 0
    /\ lastCall' = NoCall
    /\ UNCHANGED hashSeed
    /\ UNCHANGED regVars

\* a registry call starts only while no process_request is running: the two
\* share no variable, so their interleavings add nothing
RegStep(t) ==
    \/ pc = "idle" /\ CallGet(t)
    \/ pc = "idle" /\ CallInit(t)
    \/ GetCheck(t)
    \/ InitCheck(t)
    \/ InitClient(t)
    \/ InitResolver(t)
    \/ InitAgents(t)
    \/ InitReturn(t)
    \/ GetReturn(t)
    \/ Resume(t)

Next ==
    \/ ImportSettings /\ UNCHANGED <<callVars, parVars>>
    \/ \E t \in Threads :
          RegStep(t) /\ UNCHANGED <<config, imported>> /\ UNCHANGED <<callVars, parVars>>
    \/ \E a \in Agents, inp \in Inputs : ProcessRequest(a, inp) /\ UNCHANGED parVars
    \/ Extract /\ UNCHANGED parVars
    \/ Prompt /\ UNCHANGED parVars
    \/ pc = "generating" /\ (\E sdk \in TextOutcomes(Self) : Generate(sdk)) /\ UNCHANGED parVars
    \/ Parse /\ UNCHANGED parVars
    \/ (\E sdk \in ImageOutcomes : Image(sdk)) /\ UNCHANGED parVars
    \/ Return /\ UNCHANGED parVars
    \/ Leave /\ UNCHANGED parVars

Spec == Init /\ [][Next]_vars

\* ------------------------------------- concurrent calls on one agent instance
\* The agent instances the threads share, the inputs they pass and what the
\* SDK does in their calls
ParAgents == {"site_intelligence_regulatory_compliance_agent",
              "generative_architectural_design_agent"}
ParInputs == {InEmpty, InPipeline}
ParTextOutcomes(d) ==
    {SdkRaises, SdkResponse(1, 1, Str("not json")), SdkResponse(1, 1, JsonText(FullObject(d)))}
ParImageOutcomes == {ImagenRaises, ImagenResponse(1)}

\* the shared instance: its descriptor and its GeminiService
ParSelf == AgentDef[instance]
ParService == services[_adk_agents.d[instance].gemini_service]

\* The registry has been initialised (the state initialize_adk_system_with_agents
\* leaves) and the threads hold the same agent
ParInit ==
    /\ config = TRUE
    /\ imported = "ok"
    /\ vertexOk = TRUE
    /\ _resolver = 1
    /\ resolverCtor = 1
    /\ _adk_agents = [none |-> FALSE, d |-> BuildAgents(1, 0)]
    /\ agentCtor = Len(AgentOrder)
    /\ services = [i \in 1 .. Len(AgentOrder) |-> GeminiService(TRUE)]
    /\ rpc = [t \in Threads |-> "idle"]
    /\ api = [t \in Threads |-> "none"]
    /\ ret = [t \in Threads |-> NoReturn]
    /\ firstRet = [set |-> TRUE, api |-> "init",
                   val |-> Returned([none |-> FALSE, d |-> BuildAgents(1, 0)], 1),
                   ctors |-> <<1, Len(AgentOrder), Len(AgentOrder)>>]
    /\ CallInit0
    /\ instance \in ParAgents
    /\ frames = [t \in Threads |-> IdleFrame]

\* thread t's frame becomes f; nothing else changes
SetFrame(t, f) ==
    /\ frames' = [frames EXCEPT ![t] = f]
    /\ UNCHANGED <<regVars, callVars, instance>>

\* thread t calls process_request(inp) on the shared instance
ParCall(t, inp) ==
    /\ frames[t].pc = "idle"
    /\ SetFrame(t, [IdleFrame EXCEPT !.pc = "start", !.user_input = inp])

\* the statements before the try
ParExtract(t) ==
    /\ frames[t].pc = "start"
    /\ LET f == frames[t]
           e == PreTry(ParSelf, f.user_input) IN
         SetFrame(t, IF IsExc(e) THEN [f EXCEPT !.pc = "raised", !.result = e]
                     ELSE [f EXCEPT !.pc = "prompt"])

\* the prompt
ParPrompt(t) ==
    /\ frames[t].pc = "prompt"
    /\ LET f == frames[t]
           e == BuildPrompt(ParSelf, f.user_input) IN
         SetFrame(t, IF IsExc(e)
                     THEN [f EXCEPT !.pc = "done", !.result = Failed(ParSelf, f.user_input, e)]
                     ELSE [f EXCEPT !.pc = IF ParSelf.usesText THEN "generating" ELSE "imaging"])

\* ParGenerate keeping the reply in an attribute of the instance, which the
\* threads share
ParGenerate_SharedReply(t, sdk) ==
    /\ frames[t].pc = "generating"
    /\ LET text == generate_text(ParService, sdk) IN
         /\ frames' = [u \in Threads |->
               IF u = t
               THEN IF text = PyNone
                    THEN [frames[t] EXCEPT !.tsdk = sdk, !.llm_response = text, !.pc = "done",
                                           !.result = Unavailable(ParSelf)]
                    ELSE [frames[t] EXCEPT !.tsdk = sdk, !.llm_response = text, !.pc = "parsing"]
               ELSE [frames[u] EXCEPT !.llm_response = text]]
         /\ UNCHANGED <<regVars, callVars, instance>>

\* llm_response = self.gemini_service.generate_text(...), and the None check
ParGenerate(t, sdk) ==
    /\ frames[t].pc = "generating"
    /\ LET f == frames[t]
           text == generate_text(ParService, sdk) IN
         SetFrame(t, IF text = PyNone
                     THEN [f EXCEPT !.tsdk = sdk, !.llm_response = text, !.pc = "done",
                                    !.result = Unavailable(ParSelf)]
                     ELSE [f EXCEPT !.tsdk = sdk, !.llm_response = text, !.pc = "parsing"])

\* the inner try
ParParse(t) ==
    /\ frames[t].pc = "parsing"
    /\ LET f == frames[t]
           p == ParseStep(ParSelf, f.user_input, f.llm_response, hashSeed) IN
         SetFrame(t, IF IsExc(p.exc)
                     THEN [f EXCEPT !.pc = "done", !.fellBack = p.fellBack,
                                    !.result = Failed(ParSelf, f.user_input, p.exc)]
                     ELSE [f EXCEPT !.pc = IF ParSelf.images > 0 THEN "imaging" ELSE "compiling",
                                    !.fellBack = p.fellBack, !.parsed = p.parsed])

\* self.gemini_service.generate_image(...)
ParImage(t, sdk) ==
    /\ frames[t].pc = "imaging"
    /\ LET f == frames[t]
           e == ImagePrompt(ParSelf, f.user_input, f.parsed) IN
         SetFrame(t, IF ParSelf.style = "arch" /\ IsExc(e)
                     THEN [f EXCEPT !.pc = "done", !.result = Failed(ParSelf, f.user_input, e)]
                     ELSE [f EXCEPT !.images = Append(f.images, generate_image(ParService, sdk)),
                                    !.isdks = Append(f.isdks, sdk),
                                    !.pc = IF Len(f.images) + 1 < ParSelf.images
                                           THEN "imaging" ELSE "compiling"])

\* the payload is built and returned
ParReturn(t) ==
    /\ frames[t].pc = "compiling"
    /\ LET f == frames[t]
           r == Compile(ParSelf, f.user_input, f.parsed, f.images, hashSeed) IN
         SetFrame(t, [f EXCEPT !.pc = "done",
                               !.result = IF IsExc(r) THEN Failed(ParSelf, f.user_input, r) ELSE r])

\* the caller takes the result
ParLeave(t) ==
    /\ frames[t].pc \in {"done", "raised"}
    /\ SetFrame(t, IdleFrame)

ParNext ==
    \E t \in Threads :
        \/ \E inp \in ParInputs : ParCall(t, inp)
        \/ ParExtract(t)
        \/ ParPrompt(t)
        \/ frames[t].pc = "generating" /\ \E sdk \in ParTextOutcomes(ParSelf) : ParGenerate(t, sdk)
        \/ ParParse(t)
        \/ \E sdk \in ParImageOutcomes : ParImage(t, sdk)
        \/ ParReturn(t)
        \/ ParLeave(t)

ParSpec == ParInit /\ [][ParNext]_vars

\* ------------------------------------------------------------------- claims
\* the call has returned a dict
Done == pc = "done"
Succeeded == Done /\ result.m["status"] = Str("success")
Errored == Done /\ result.m["status"] = Str("error")
\* generate_text was called and returned a text; Reply is what the text decodes to
GotText == text_calls = 1 /\ llm_response.kind = "str"
Reply == json_loads(llm_response)
\* the payload of a success output of an agent that has a payload key
Payload == result.m[Self.outKey]
\* the payload key that carries the key k of the parsed reply
CarriedAs(d, k) ==
    IF d.style = "merge" THEN k
    ELSE CHOOSE o \in DOMAIN d.fields : d.fields[o].src = k

\* C1: when the reply decodes to a value that is not an object or lacks a
\* required key, the agent substitutes its fallback and returns success
\* (stated for the agents that have a validation step).
C1_ValidationFailureFallsBack ==
    (Done /\ GotText /\ Self.validates /\ ~IsExc(Reply)
          /\ (Reply.kind # "dict" \/ ~(Self.required \subseteq DOMAIN Reply.m)))
    => (Succeeded /\ fellBack)

\* C2: when the reply is not valid JSON, every agent returns success with a
\* payload built from its fallback values.
C2_MalformedReplyFallsBack ==
    (Done /\ GotText /\ IsExc(Reply))
    => (Succeeded /\ fellBack /\ parsed = Fallback(Self, user_input, hashSeed))

\* C3: once generate_text has returned None the call has ended with status
\* error and a message, having decoded nothing and generated nothing else.
C3_UnavailableEndsInError ==
    (text_calls >= 1 /\ llm_response = PyNone)
    => /\ Errored
       /\ "message" \in DOMAIN result.m
       /\ text_calls = 1
       /\ loads_calls = 0
       /\ image_calls = 0

C3_Witness ==
    /\ agent = "generative_architectural_design_agent"
    /\ SelfService.gemini_model
    /\ text_calls = 1
    /\ llm_response = PyNone
    /\ Errored

\* C4: no exception leaves process_request: every call ends with a dict whose
\* status is success or error.
C4_NoExceptionPropagates ==
    pc \in {"done", "raised"}
    => /\ result.kind = "dict"
       /\ result.m["status"] \in {Str("success"), Str("error")}

\* C5 as stated: with a reply holding all required keys the payload is the
\* parsed object plus project_id, nothing dropped, renamed or overwritten.
C5_PayloadEqualsParsed ==
    (Succeeded /\ GotText /\ Self.validates /\ ~fellBack)
    => /\ \A k \in DOMAIN Reply.m \ {"project_id"} :
             k \in DOMAIN Payload.m /\ Payload.m[k] = Reply.m[k]
       /\ DOMAIN Payload.m \subseteq DOMAIN Reply.m \cup {"project_id"}

\* C5 amended, for the agents that have a required-key set: with a reply
\* holding all required keys the call succeeds and the payload carries the
\* parsed value of every required key, under the key the agent gives it;
\* the merging agents keep the other keys of the reply except project_id and
\* the agent's own constants, the projecting agents drop them.
C5_RequiredValuesCarried ==
    (Done /\ GotText /\ Self.validates /\ ~IsExc(Reply) /\ Reply.kind = "dict"
          /\ Self.required \subseteq DOMAIN Reply.m)
    => /\ Succeeded /\ ~fellBack
       /\ \A k \in Self.required : Payload.m[CarriedAs(Self, k)] = Reply.m[k]
       /\ Payload.m["project_id"] = ProjectId(user_input)
       /\ \A c \in DOMAIN Self.consts : Payload.m[c] = Self.consts[c]
       /\ DOMAIN Payload.m =
            {"project_id"} \cup DOMAIN Self.consts
            \cup (IF Self.style = "merge" THEN DOMAIN Reply.m ELSE DOMAIN Self.fields)

C5_Witness ==
    /\ Succeeded /\ GotText /\ ~fellBack
    /\ agent = "proactive_risk_safety_management_agent"
    /\ "extra_note" \in DOMAIN Reply.m
    /\ Payload.m["risks"] = Str("identified_risks")

\* C6 as stated: every returned dict has agent_name and status, status is
\* success or error, and a success output has exactly one further key.
C6_OnePayloadKey ==
    Done
    => /\ {"agent_name", "status"} \subseteq DOMAIN result.m
       /\ result.m["status"] \in {Str("success"), Str("error")}
       /\ Succeeded => Cardinality(DOMAIN result.m) = 3

\* C6 amended: as stated for every agent but the client engagement agent,
\* whose success output is flat: details, parsed_data, clarifications,
\* workflow_suggested and project_id beside agent_name and status.
C6_OutputShape ==
    Done
    => /\ {"agent_name", "status"} \subseteq DOMAIN result.m
       /\ result.m["agent_name"] = Str(Self.name)
       /\ result.m["status"] \in {Str("success"), Str("error")}
       /\ Succeeded =>
            DOMAIN result.m =
              IF agent = "strategic_client_engagement_agent"
              THEN {"agent_name", "status", "details", "parsed_data", "clarifications",
                    "workflow_suggested", "project_id"}
              ELSE {"agent_name", "status", Self.outKey}

C6_Witness ==
    /\ Succeeded
    /\ agent = "strategic_client_engagement_agent"
    /\ "parsed_data" \in DOMAIN result.m

\* C7 as stated: a success payload contains every key of the required-key set.
C7_PayloadHasRequiredKeys ==
    (Succeeded /\ Self.validates) => Self.required \subseteq DOMAIN Payload.m

\* C7 amended: a success payload holds, for every required key, the value the
\* inner try bound to it (parsed or fallback), under the key the agent
\* carries it as.
C7_PayloadCarriesRequired ==
    (Succeeded /\ Self.validates)
    => \A k \in Self.required :
          /\ k \in DOMAIN parsed.m
          /\ CarriedAs(Self, k) \in DOMAIN Payload.m
          /\ Payload.m[CarriedAs(Self, k)] = parsed.m[k]

C7_Witness ==
    /\ Succeeded /\ fellBack
    /\ agent = "human_ai_collaboration_explainability_agent"
    /\ "summary_text" \in DOMAIN Payload.m
    /\ "summary_for_human" \notin DOMAIN Payload.m

\* C8: once a call has returned the agent map and the resolver, every call
\* returns that map and that resolver, and no further constructor runs.
C8_SameInstances ==
    firstRet.set
    => /\ \A t \in Threads :
            (rpc[t] = "returned" /\ ret[t].kind = "value") => ret[t] = firstRet.val
       /\ ~firstRet.val.agents.none /\ firstRet.val.resolver # 0
       /\ <<resolverCtor, agentCtor, Len(services)>> = firstRet.ctors

C8_Witness ==
    /\ firstRet.set /\ firstRet.api = "get"
    /\ \E t \in Threads : rpc[t] = "returned" /\ api[t] = "init" /\ ret[t] = firstRet.val

\* the registry has been initialised
Initialised == ~_adk_agents.none

\* C9 as stated: 19 names, one instance of a distinct class each, one shared
\* resolver, and the generation client initialised once.
C9_OneGenerationClient ==
    Initialised
    => /\ Cardinality(DOMAIN _adk_agents.d) = 19
       /\ \A a, b \in DOMAIN _adk_agents.d :
            /\ a # b => _adk_agents.d[a].cls # _adk_agents.d[b].cls
            /\ _adk_agents.d[a].resolver = _resolver
       /\ Len(services) = 1

\* C9 amended: 19 names, one instance of a distinct class each, one shared
\* resolver built once; each of the seventeen agent classes of the tree
\* constructs a GeminiService of its own, all from the same settings.
C9_RegistryShape ==
    Initialised
    => /\ Cardinality(DOMAIN _adk_agents.d) = 19
       /\ \A a, b \in DOMAIN _adk_agents.d :
            a # b => _adk_agents.d[a].cls # _adk_agents.d[b].cls
       /\ \A a \in Agents : _adk_agents.d[a].resolver = _resolver
       /\ \A a, b \in Agents :
            /\ a # b => _adk_agents.d[a].gemini_service # _adk_agents.d[b].gemini_service
            /\ _adk_agents.d[a].gemini_service \in DOMAIN services
            /\ services[_adk_agents.d[a].gemini_service] = GeminiService(vertexOk)
       /\ resolverCtor = 1 /\ agentCtor = 19
       /\ Len(services) >= Cardinality(Agents)

C9_Witness ==
    /\ Initialised
    /\ \E t \in Threads : rpc[t] = "returned" /\ ret[t].kind = "value"
    /\ Len(services) = 19

\* C10: the cost agent, called with project_id p1 and total_estimated_cost_usd
\* 100 and given the reply `not json`, returns success with exactly the
\* fallback number, breakdown and strategy, project_id p1 and its status.
C10_CostFallbackExample ==
    (Done /\ agent = "predictive_cost_supply_chain_agent" /\ user_input = InCost
          /\ llm_response = Str("not json"))
    => /\ DOMAIN result.m = {"agent_name", "status", "cost_supply_chain_analysis"}
       /\ result.m["agent_name"] = Str("Predictive Cost & Supply Chain Agent")
       /\ result.m["status"] = Str("success")
       /\ DOMAIN Payload.m = {"total_estimated_cost_usd", "cost_breakdown",
                              "procurement_strategy", "project_id", "status"}
       /\ Payload.m["total_estimated_cost_usd"].kind = "num"
       /\ Payload.m["total_estimated_cost_usd"].n \in 700000 .. 799999
       /\ Payload.m["cost_breakdown"] = PredictiveCostSupplyChainAgent.fallback["cost_breakdown"]
       /\ Payload.m["procurement_strategy"] =
            Str("Generic procurement strategy due to parsing error.")
       /\ Payload.m["project_id"] = Str("p1")
       /\ Payload.m["status"] = Str("cost_estimation_complete")

C10_Witness ==
    /\ Succeeded /\ agent = "predictive_cost_supply_chain_agent" /\ user_input = InCost
    /\ llm_response = Str("not json") /\ hashSeed < 0

\* the generation client of the agent called has neither model
ClientDown == ~SelfService.gemini_model /\ ~SelfService.imagen_model

\* C11: with a generation client that failed to initialise, every call that
\* gets to the client returns status error with the message "LLM did not
\* generate a valid response for <task>."
C11_DownClientEndsInError ==
    (pc \in {"done", "raised"} /\ ClientDown /\ text_calls + image_calls >= 1)
    => /\ Errored
       /\ result.m["message"] = Str(Self.task)

\* C12: generate_text and generate_image never raise to their caller; an
\* uninitialised model, an exception from the SDK call and an empty response
\* each give None.
C12_ClientNeverRaises ==
    /\ ~IsExc(llm_response)
    /\ \A i \in DOMAIN images : ~IsExc(images[i])
    /\ lastCall.fn # "none"
         => /\ ~IsExc(lastCall.ret)
            /\ (\/ ~lastCall.ready
                \/ lastCall.exc
                \/ lastCall.fn = "generate_text" /\ (lastCall.candidates = 0 \/ lastCall.parts = 0)
                \/ lastCall.fn = "generate_image" /\ lastCall.images = 0)
               => lastCall.ret = PyNone

C12_Witness ==
    /\ lastCall.fn = "generate_image" /\ lastCall.ready /\ lastCall.exc
    /\ lastCall.ret = PyNone
    /\ image_calls = 2

\* C13: generate_text returns the text of the first part of the first
\* candidate exactly when the client is initialised and the response has a
\* candidate whose content has a part; in every other case it returns None.
C13_TextExactlyWhenContent ==
    lastCall.fn = "generate_text"
    => /\ llm_response = lastCall.ret
       /\ IF lastCall.ready /\ ~lastCall.exc /\ lastCall.candidates >= 1 /\ lastCall.parts >= 1
          THEN lastCall.ret = lastCall.text /\ lastCall.ret.kind = "str"
          ELSE lastCall.ret = PyNone

C13_Witness ==
    /\ lastCall.fn = "generate_text" /\ lastCall.ready
    /\ lastCall.candidates = 1 /\ lastCall.parts = 1
    /\ llm_response = Str("not json")

\* C14: a call makes at most one generate_text call, decodes only a text
\* result, and ends in exactly one of Success and Error: Error when the
\* client gave None, Success (parsed or fallback) once it decoded a reply.
C14_CallStateMachine ==
    /\ text_calls <= 1
    /\ (pc = "parsing" \/ loads_calls > 0) => (text_calls = 1 /\ llm_response.kind = "str")
    /\ pc \in {"done", "raised"}
         => /\ Done
            /\ result.m["status"] \in {Str("success"), Str("error")}
            /\ (text_calls = 1 /\ llm_response = PyNone) => Errored
            /\ loads_calls = 1 => Succeeded

\* C15: no step of process_request changes the input mapping.
C15_InputUnchanged ==
    [][(pc # "idle" /\ pc' # "idle") => user_input' = user_input]_vars

C15_Witness ==
    /\ Succeeded /\ agent = "predictive_cost_supply_chain_agent"
    /\ user_input = InPipeline /\ ~fellBack

\* the fallback of the agent called, built for the empty input
ReferenceFallback == Fallback(Self, InEmpty, hashSeed)
\* the fallback was substituted
FallbackBound == fellBack /\ parsed.kind = "dict"
\* the fallback entries computed from the call
InputDependent(d) ==
    CASE d.outKey = "cost_supply_chain_analysis" -> {"total_estimated_cost_usd"}
      [] d.outKey = "master_project_plan" -> {"budget_summary", "timeline_summary"}
      [] d.style = "flat" -> {"parsed_requirements"}
      [] OTHER -> {}

\* C16 as stated: the fallback is the same value for every input, is not
\* empty and contains every required key.
C16_StaticFallback ==
    FallbackBound
    => /\ parsed = ReferenceFallback
       /\ DOMAIN parsed.m # {}
       /\ Self.required \subseteq DOMAIN parsed.m

\* C16 amended: the fallback has the same keys for every input, is not empty
\* and contains every required key; its values are the same for every input
\* except the cost number of the cost agent, the two summaries of the plan
\* agent and the requirements of the client agent, computed from the input.
C16_FallbackShape ==
    FallbackBound
    => /\ DOMAIN parsed.m = DOMAIN ReferenceFallback.m
       /\ DOMAIN parsed.m # {}
       /\ Self.required \subseteq DOMAIN parsed.m
       /\ \A k \in DOMAIN parsed.m \ InputDependent(Self) :
             parsed.m[k] = ReferenceFallback.m[k]

C16_Witness ==
    /\ FallbackBound /\ agent = "adaptive_project_management_robotics_orchestration_agent"
    /\ user_input = InPipeline
    /\ parsed.m["budget_summary"] # ReferenceFallback.m["budget_summary"]

\* C17: with the required configuration absent the settings still load and
\* the process goes on (with a generation client that has no model).
C17_MissingConfigDegrades ==
    (~config /\ imported # "no")
    => /\ imported = "ok"
       /\ \A i \in DOMAIN services : services[i] = GeminiService(FALSE)

\* C19: with an input mapping that lacks keys the agent reads, the defaults
\* are taken and the call reaches generation and returns.
C19_MissingKeysReachGeneration ==
    (pc \in {"done", "raised"} /\ user_input \in {InEmpty, InCost})
    => /\ Done
       /\ text_calls + image_calls >= 1

\* C20 as stated: the keys of the fallback of a validating agent are exactly
\* its required keys.
C20_FallbackKeysAreRequired ==
    (FallbackBound /\ Self.validates) => DOMAIN parsed.m = Self.required

\* C20 amended: the fallback of a validating agent has every required key,
\* and no other key except in the plan agent, whose fallback also has
\* risks_identified and next_steps.
C20_FallbackKeysCoverRequired ==
    (FallbackBound /\ Self.validates)
    => DOMAIN parsed.m =
         Self.required \cup
         (IF agent = "adaptive_project_management_robotics_orchestration_agent"
          THEN {"risks_identified", "next_steps"} ELSE {})

C20_Witness ==
    /\ FallbackBound /\ agent = "adaptive_project_management_robotics_orchestration_agent"
    /\ "next_steps" \in DOMAIN parsed.m /\ pc = "done"

\* What process_request(inp) of agent d gives when it runs alone: the steps in
\* program order, with tsdk and isdks what the SDK does in its calls
RunAlone(d, service, inp, tsdk, isdks, seed) ==
    LET text == generate_text(service, tsdk)
        p == ParseStep(d, inp, text, seed)
        imgs == [i \in 1 .. d.images |-> generate_image(service, isdks[i])]
        r == Compile(d, inp, p.parsed, imgs, seed)
    IN  IF IsExc(PreTry(d, inp)) THEN PreTry(d, inp)
        ELSE IF IsExc(BuildPrompt(d, inp)) THEN Failed(d, inp, BuildPrompt(d, inp))
        ELSE IF d.usesText /\ text = PyNone THEN Unavailable(d)
        ELSE IF d.usesText /\ IsExc(p.exc) THEN Failed(d, inp, p.exc)
        ELSE IF d.style = "arch" /\ IsExc(ImagePrompt(d, inp, p.parsed))
             THEN Failed(d, inp, ImagePrompt(d, inp, p.parsed))
        ELSE IF IsExc(r) THEN Failed(d, inp, r)
        ELSE r

\* C18: under every interleaving of calls on one agent instance, each call
\* returns what it would return alone with the same generation results.
C18_CallsIndependent ==
    \A t \in Threads :
        frames[t].pc \in {"done", "raised"}
        => frames[t].result =
             RunAlone(ParSelf, ParService, frames[t].user_input, frames[t].tsdk,
                      frames[t].isdks, hashSeed)

C18_Witness ==
    \E t, u \in Threads :
        /\ t # u
        /\ frames[t].pc = "done" /\ frames[t].result.m["status"] = Str("success")
        /\ ~frames[t].fellBack
        /\ frames[u].pc = "parsing" /\ frames[u].llm_response = Str("not json")

\* the project_id a success output carries: inside the payload, or at the top
\* level in the flat output of the client engagement agent
CarriedProjectId ==
    IF Self.style = "flat" THEN result.m["project_id"] ELSE Payload.m["project_id"]
\* the project_id entry of the input, None when absent
InputProjectId ==
    IF "project_id" \in DOMAIN user_input.m THEN user_input.m["project_id"] ELSE PyNone

\* C21 as stated: every success output carries the project_id of the input,
\* None when absent, whatever project_id the reply holds.
C21_ProjectIdFromInput ==
    Succeeded => CarriedProjectId = InputProjectId

\* C21 amended: as stated for every agent but the client engagement agent,
\* whose output carries the mock_project_id its constructor computed.
C21_ProjectIdPassThrough ==
    Succeeded
    => CarriedProjectId =
         IF agent = "strategic_client_engagement_agent"
         THEN mock_project_id(hashSeed) ELSE InputProjectId

C21_Witness ==
    /\ Succeeded /\ agent = "predictive_cost_supply_chain_agent"
    /\ GotText /\ ~fellBack
    /\ Reply.kind = "dict" /\ "project_id" \in DOMAIN Reply.m
    /\ Reply.m["project_id"] = Str("project_id")
    /\ Payload.m["project_id"] = Str("p1")

\* ------------------------------------------- get_adk_system called concurrently
\* The module has no lock: a thread may enter get_adk_system() while another
\* is between any two statements of it.  The steps of a call are the ones of
\* the sequential specification; only the entry differs.
RaceGet(t) ==
    /\ imported = "ok"
    /\ rpc[t] = "idle"
    /\ rpc' = [rpc EXCEPT ![t] = "get_check"]
    /\ api' = [api EXCEPT ![t] = "get"]
    /\ UNCHANGED <<_resolver, _adk_agents, resolverCtor, agentCtor, services, vertexOk, ret, firstRet>>

RaceStep(t) ==
    \/ RaceGet(t)
    \/ GetCheck(t)
    \/ InitCheck(t)
    \/ InitClient(t)
    \/ InitResolver(t)
    \/ InitAgents(t)
    \/ InitReturn(t)
    \/ GetReturn(t)
    \/ Resume(t)

RaceNext ==
    \/ ImportSettings /\ UNCHANGED <<callVars, parVars>>
    \/ \E t \in Threads : RaceStep(t) /\ UNCHANGED <<config, imported, callVars, parVars>>

RaceSpec == Init /\ [][RaceNext]_vars

\* C22: under every interleaving of concurrent get_adk_system calls the
\* Resolver is constructed once, each agent class is constructed once, and
\* every call that returns gives a non-None agent map and the resolver.
C22_InitialisedOnceConcurrently ==
    /\ resolverCtor <= 1
    /\ agentCtor <= Len(AgentOrder)
    /\ \A t \in Threads :
         rpc[t] = "returned" /\ ret[t].kind = "value"
         => ~ret[t].agents.none /\ ret[t].resolver # 0

\* no thread is inside initialize_adk_system_with_agents
NoInitInProgress ==
    \A t \in Threads :
        rpc[t] \notin {"init_check", "init_client", "init_resolver", "init_agents", "init_return"}

\* C23: whenever no initialisation call is in progress, _resolver is None
\* exactly when _adk_agents is None, also after an attempt that raised; and
\* get_adk_system never returns None as the agent map.
C23_GlobalsAgree ==
    /\ NoInitInProgress => ((_resolver = 0) <=> _adk_agents.none)
    /\ \A t \in Threads :
         rpc[t] = "returned" /\ api[t] = "get" /\ ret[t].kind = "value"
         => ~ret[t].agents.none /\ ret[t].resolver # 0

\* a get_adk_system call whose initialisation raised left both globals None
C23_Witness ==
    \E t \in Threads :
        /\ rpc[t] = "returned" /\ api[t] = "get" /\ ret[t].kind = "Exception"
        /\ _resolver = 0 /\ _adk_agents.none

\* C24: in the architectural design agent generate_image is called at most
\* once, only after generate_text gave a text that was parsed or replaced by
\* the fallback; when the image is unavailable the call still succeeds, with
\* conceptual_render_base64 "N/A" and full_conceptual_render_base64 None.
C24_TextBeforeImage ==
    agent = "generative_architectural_design_agent"
    => /\ image_calls <= 1
       /\ image_calls = 1
          => /\ GotText /\ loads_calls = 1
             /\ parsed.kind = "dict"
             /\ fellBack <=> IsExc(Reply)
       /\ Done /\ image_calls = 1
          => /\ Succeeded
             /\ Payload.m["full_conceptual_render_base64"] = images[1]
             /\ images[1] = PyNone
                => Payload.m["conceptual_render_base64"] = Str("N/A")

C24_Witness ==
    /\ agent = "generative_architectural_design_agent"
    /\ Succeeded /\ fellBack /\ image_calls = 1
    /\ images[1] = PyNone /\ lastCall.fn = "generate_image" /\ lastCall.exc
    /\ Payload.m["full_conceptual_render_base64"] = PyNone

\* the digital twin agent's three design entries are mappings (an absent
\* entry is read as {})
DesignEntriesAreMappings ==
    /\ user_input.kind = "dict"
    /\ \A k \in {"architectural_concept", "experiential_design", "site_feasibility_report"} :
         PyGet(user_input, k, EmptyDict).kind = "dict"
\* ', '.join(architectural_concept.get('key_design_elements', [])) raises
KeyElementsUnjoinable ==
    IsExc(JoinOf(user_input, <<"architectural_concept", "key_design_elements">>))
\* two image calls, a success output, and per render the truncated and the
\* full field: images[1] is the exterior render, images[2] the interior one
TwoRendersReturned ==
    /\ image_calls = 2 /\ Succeeded
    /\ Payload.m["full_exterior_render_base64"] = images[1]
    /\ Payload.m["full_interior_render_base64"] = images[2]
    /\ images[1] = PyNone => Payload.m["exterior_render_base64"] = Str("N/A")
    /\ images[2] = PyNone => Payload.m["interior_render_base64"] = Str("N/A")

\* C25 as stated: the digital twin agent never calls generate_text, and on an
\* input whose design entries are mappings it calls generate_image twice and
\* returns success whatever the two image results are.
C25_TwoRendersAlways ==
    agent = "hyper_realistic_3d_digital_twin_agent"
    => /\ text_calls = 0
       /\ Done /\ DesignEntriesAreMappings => TwoRendersReturned

\* C25 amended: as stated when key_design_elements can be joined; when it
\* cannot, the call returns status error without any image call.
C25_TwoRendersWhenJoinable ==
    agent = "hyper_realistic_3d_digital_twin_agent"
    => /\ text_calls = 0
       /\ Done /\ DesignEntriesAreMappings
          => IF KeyElementsUnjoinable THEN Errored /\ image_calls = 0
             ELSE TwoRendersReturned

C25_Witness ==
    /\ agent = "hyper_realistic_3d_digital_twin_agent"
    /\ Done /\ DesignEntriesAreMappings /\ ~KeyElementsUnjoinable
    /\ user_input = InPipeline
    /\ image_calls = 2 /\ images[1] = PyNone /\ images[2] = ImageB64
    /\ Payload.m["exterior_render_base64"] = Str("N/A")

\* the keys under which the agents return their payload; the client
\* engagement agent returns its payload entries at the top level
PayloadKeys ==
    {AgentDef[a].outKey : a \in {b \in Agents : AgentDef[b].style # "flat"}}
    \cup {"details", "parsed_data", "clarifications", "workflow_suggested", "project_id"}

\* C26: a mapping returned with status error holds message and no payload
\* key of any agent; a mapping returned with status success holds no message.
C26_MessageOnlyOnError ==
    /\ Errored => /\ "message" \in DOMAIN result.m
                  /\ result.m["message"].kind = "str"
                  /\ DOMAIN result.m \cap PayloadKeys = {}
    /\ Succeeded => "message" \notin DOMAIN result.m

\* the workforce agent's reply failed validation and the call ended in error
C26_Witness ==
    /\ agent = "workforce_management_hr_agent"
    /\ Errored /\ GotText /\ Reply = EmptyDict
    /\ DOMAIN result.m = {"agent_name", "status", "message"}

\* C27: for the semantic data integration agent, with any input mapping, a
\* finished call has called generate_text exactly once, and when the reply is
\* an object holding data_domains, integration_challenges and
\* suggested_ontologies the output is a success carrying those three values
\* as data_domains_identified, potential_integration_challenges and
\* recommended_ontologies.
C27_SemanticGeneratesOnce ==
    agent = "semantic_data_integration_ontology_agent" /\ Done /\ user_input.kind = "dict"
    => /\ text_calls = 1
       /\ ( /\ GotText /\ Reply.kind = "dict"
            /\ {"data_domains", "integration_challenges", "suggested_ontologies"}
                 \subseteq DOMAIN Reply.m )
          => /\ Succeeded
             /\ Payload.m["data_domains_identified"] = Reply.m["data_domains"]
             /\ Payload.m["potential_integration_challenges"] = Reply.m["integration_challenges"]
             /\ Payload.m["recommended_ontologies"] = Reply.m["suggested_ontologies"]

\* C28: in the cost agent, whenever the reply is not JSON, for every input
\* mapping the call succeeds with a fallback total_estimated_cost_usd that is
\* an integer in 700000..799999 and is determined by the project_id and the
\* process (its hash seed) alone.
C28_CostFallbackNumber ==
    ( /\ agent = "predictive_cost_supply_chain_agent" /\ Done
      /\ user_input.kind = "dict" /\ GotText /\ IsExc(Reply) )
    => /\ Succeeded /\ fellBack
       /\ Payload.m["total_estimated_cost_usd"].kind = "num"
       /\ Payload.m["total_estimated_cost_usd"].n \in 700000 .. 799999
       /\ \A inp \in Inputs :
            inp.kind = "dict" /\ ProjectId(inp) = ProjectId(user_input)
            => Fallback(Self, inp, hashSeed).m["total_estimated_cost_usd"]
                 = Payload.m["total_estimated_cost_usd"]

\* the location and project_type of the call, None when absent
Location == PyGet(user_input, "location", PyNone)
ProjectType == PyGet(user_input, "project_type", PyNone)
\* the value is a key of the mapping
IsKeyOf(v, d) == v.kind = "str" /\ v.l = <<>> /\ v.s \in DOMAIN d.m
LondonEntry == mock_zoning_data.m["London, UK"]
\* the table entry the location selects
ChosenEntry == IF IsKeyOf(Location, mock_zoning_data) THEN mock_zoning_data.m[Location.s]
               ELSE LondonEntry
\* zoning_data as the table gives it for the location and project_type
TableZoning ==
    Dict(("allowed_height_m" :>
             IF IsKeyOf(ProjectType, ChosenEntry)
             THEN ChosenEntry.m[ProjectType.s].m["allowed_height_m"] ELSE Str("N/A"))
      @@ ("setbacks_m" :>
             IF IsKeyOf(ProjectType, ChosenEntry)
             THEN ChosenEntry.m[ProjectType.s].m["setbacks_m"] ELSE EmptyDict)
      @@ ("max_coverage_percent" :> ChosenEntry.m["max_coverage_percent"]))

====
